---- MODULE Spec2Model ----
(***************************************************************************)
(* A model of the blockchain_consensus package: the block / chain data     *)
(* model (core/), and the four consensus protocols (consensus/) that       *)
(* extend one chain round by round.                                        *)
(*                                                                         *)
(* Text is a sequence of one-character strings, so that the f-string       *)
(* concatenations that feed the hashes are computed, not assumed.          *)
(***************************************************************************)
EXTENDS Integers, Sequences, FiniteSets, TLC

VARIABLES
    chain,                \* Blockchain.chain: the list of blocks
    pending_transactions, \* Blockchain.pending_transactions
    protocol,             \* the ConsensusProtocol instances constructed: a subset of {"pow", "pos", "dpos", "pbft"}
    difficulty,           \* ProofOfWork.difficulty
    validators,           \* ProofOfStake.validators: list of StakeInfo in dict order
    age_factor,           \* ProofOfStake.age_factor
    candidates,           \* DelegatedProofOfStake.candidates: list of Delegate in dict order
    num_delegates,        \* DelegatedProofOfStake.num_delegates
    active_delegates,     \* DelegatedProofOfStake.active_delegates
    round_index,          \* DelegatedProofOfStake._round_index
    node_list,            \* PracticalBFT.node_list
    byzantine_count,      \* PracticalBFT.byzantine_count
    view,                 \* PracticalBFT._view
    pbft_nodes,           \* PracticalBFT.pbft_nodes: address -> PBFTNode
    last,                 \* the last call: its arguments, its outcome, the state it started from
    history,              \* the outcomes of the run_round calls so far, oldest first
    calls,                \* number of calls made so far
    inflight,             \* the rounds in flight: what each has drafted, and what add_block returned to it
    sim                   \* NetworkSimulator: its nodes, the config and the locals of run, the report

vars == <<chain, pending_transactions, protocol, difficulty, validators, age_factor,
          candidates, num_delegates, active_delegates, round_index,
          node_list, byzantine_count, view, pbft_nodes, last, history, calls, inflight, sim>>

(***************************************************************************)
(* Bounds of the model.                                                    *)
(***************************************************************************)
MaxPowRounds == 2    \* run_round calls on a ProofOfWork instance
MaxPosRounds == 2    \* run_round calls on a ProofOfStake instance
MaxDposRounds == 3   \* run_round calls on a DelegatedProofOfStake instance
MaxPbftRounds == 3   \* run_round calls on a PracticalBFT instance
MaxNonce == 6        \* the nonce search is followed up to this nonce
MaxDifficulty == 2   \* ProofOfWork difficulties are 0..MaxDifficulty
HashMod == 3         \* number of values a digest character takes
MaxStake == 1        \* stakes are 0..MaxStake
MaxVotes == 1        \* votes are 0..MaxVotes
MaxNodes == 7        \* PBFT validator lists have at most this many entries
MaxValidators == 2   \* PoS stake dicts have at most this many entries
MaxCandidates == 2   \* DPoS vote dicts have at most this many entries
MaxByzantine == 3    \* PBFT Byzantine counts are -1..MaxByzantine
MaxCalls == 2        \* calls per behaviour on a chain shared by the four protocols
MaxChainCalls == 2   \* calls per behaviour on a chain used without a protocol
MaxPoolCalls == 3    \* calls per behaviour on the pending pool
MaxMiners == 2       \* the active node lists passed to run_round have at most this many entries
MaxNumRounds == 2     \* SimulationConfig.num_rounds is -1..MaxNumRounds
MaxTxsPerRound == 1   \* SimulationConfig.txs_per_round is 0..MaxTxsPerRound
AgeFactorDenominator == 3  \* an age factor is a number of 1/AgeFactorDenominator
MaxAgeDiscount == 7  \* age factors are -MaxAgeDiscount..1, in that unit

(***************************************************************************)
(* Text                                                                    *)
(***************************************************************************)
None == <<"<None>">>  \* Python's None where a str is optional

Hex == <<"0", "1", "2", "3", "4", "5", "6", "7", "8", "9", "a", "b", "c", "d", "e", "f">>

Alphabet == Hex \o <<"g", "h", "i", "n", "o", "s", "N", ".", "-">>

CharCode == [c \in {Alphabet[i] : i \in 1..Len(Alphabet)} |->
                (CHOOSE i \in 1..Len(Alphabet) : Alphabet[i] = c) - 1]

Repeat(c, n) == [i \in 1..n |-> c]

RECURSIVE StrNat(_)
StrNat(n) == IF n < 10 THEN <<Hex[n + 1]>> ELSE StrNat(n \div 10) \o <<Hex[(n % 10) + 1]>>

\* str(int) as an f-string formats it
StrInt(n) == IF n < 0 THEN <<"-">> \o StrNat(-n) ELSE StrNat(n)

\* str(float) of a float with an integral value: 1.0 -> "1.0"
StrFloat(x) == StrInt(x) \o <<".", "0">>

\* an f-string formats an Optional[str]: None -> "None"
StrOpt(s) == IF s = None THEN <<"N", "o", "n", "e">> ELSE s

\* Python truthiness of an Optional[str]
Truthy(s) == s # None /\ s # <<>>

startswith(s, prefix) ==
    /\ Len(s) >= Len(prefix)
    /\ \A i \in 1..Len(prefix) : s[i] = prefix[i]

RECURSIVE CheckSum(_, _, _)
\* the sum of the character codes of s[lo..hi]
CheckSum(s, lo, hi) ==
    IF lo > hi THEN 0
    ELSE IF lo = hi THEN CharCode[s[lo]]
    ELSE LET mid == (lo + hi) \div 2
         IN CheckSum(s, lo, mid) + CheckSum(s, mid + 1, hi)

\* hashlib.sha256(data.encode()).hexdigest(): collision free (the digest keeps
\* its pre-image), behind two leading digest characters that change with
\* every character of the pre-image.
Sha256(data) ==
    LET sum == CheckSum(data, 1, Len(data))
    IN <<Hex[(sum % HashMod) + 1], Hex[((sum \div HashMod) % HashMod) + 1]>> \o data

(***************************************************************************)
(* core/transaction.py                                                     *)
(***************************************************************************)
tx_compute_hash(tx) ==
    Sha256(tx.sender \o tx.recipient \o StrFloat(tx.amount) \o StrFloat(tx.timestamp))

\* Transaction(sender=, recipient=, amount=, timestamp=): model_post_init sets tx_id
Transaction(sender, recipient, amount, timestamp) ==
    LET tx == [sender |-> sender, recipient |-> recipient, amount |-> amount,
               timestamp |-> timestamp, tx_id |-> None]
    IN [tx EXCEPT !.tx_id = tx_compute_hash(tx)]

(***************************************************************************)
(* core/block.py                                                           *)
(***************************************************************************)
RECURSIVE tx_data(_, _)
tx_data(transactions, i) ==
    IF i > Len(transactions) THEN <<>>
    ELSE (IF Truthy(transactions[i].tx_id) THEN transactions[i].tx_id
          ELSE tx_compute_hash(transactions[i]))
         \o tx_data(transactions, i + 1)

\* the string that Block.compute_hash hashes
hash_input(block) ==
    StrInt(block.index) \o StrFloat(block.timestamp) \o tx_data(block.transactions, 1)
    \o block.previous_hash \o StrInt(block.nonce) \o StrOpt(block.validator)

compute_hash(block) == Sha256(hash_input(block))

\* Block(index=, timestamp=, transactions=, previous_hash=, validator=)
Block(index, timestamp, transactions, previous_hash, validator) ==
    [index |-> index, timestamp |-> timestamp, transactions |-> transactions,
     previous_hash |-> previous_hash, nonce |-> 0, validator |-> validator, hash |-> None]

RECURSIVE mine_from_next_nonce(_, _)
\* a variant of mine: the nonce is incremented before each hash is tried
mine_from_next_nonce(block, d) ==
    IF block.nonce >= MaxNonce THEN block
    ELSE LET next == [block EXCEPT !.nonce = @ + 1]
             candidate_hash == compute_hash(next)
         IN IF startswith(candidate_hash, Repeat("0", d))
            THEN [next EXCEPT !.hash = candidate_hash]
            ELSE mine_from_next_nonce(next, d)

\* Block.mine: the block as the search leaves it. At MaxNonce the search is
\* cut off and the block is returned without a hash assigned by this search.
RECURSIVE mine(_, _)
mine(block, d) ==
    LET candidate_hash == compute_hash(block)
    IN IF startswith(candidate_hash, Repeat("0", d))
       THEN [block EXCEPT !.hash = candidate_hash]
       ELSE IF block.nonce >= MaxNonce THEN block
       ELSE mine([block EXCEPT !.nonce = @ + 1], d)

RECURSIVE mine_returns(_, _)
\* Block.mine: the value the call returns (None stands for a search cut off at MaxNonce)
mine_returns(block, d) ==
    LET candidate_hash == compute_hash(block)
    IN IF startswith(candidate_hash, Repeat("0", d)) THEN candidate_hash
       ELSE IF block.nonce >= MaxNonce THEN None
       ELSE mine_returns([block EXCEPT !.nonce = @ + 1], d)

\* the search of mine ends within the bound
mine_ends(block, d) ==
    \E n \in block.nonce..MaxNonce :
        startswith(compute_hash([block EXCEPT !.nonce = n]), Repeat("0", d))

GenesisZeros == 64

genesis ==
    LET block == Block(0, 0, <<>>, Repeat("0", GenesisZeros), <<"g", "e", "n", "e", "s", "i", "s">>)
    IN [block EXCEPT !.hash = compute_hash(block)]

(***************************************************************************)
(* core/chain.py                                                           *)
(***************************************************************************)
\* a variant of the constructor: the block list is kept as it was given
Blockchain_as_given(blocks) == blocks

\* Blockchain(chain=blocks): model_post_init
Blockchain(blocks) == IF blocks = <<>> THEN <<genesis>> ELSE blocks

latest_block(c) == c[Len(c)]

height(c) == Len(c)

\* a variant of add_block: the link to the tip is not checked
add_block_unlinked(c, block) ==
    IF block.hash = None THEN [added |-> FALSE, chain |-> c]
    ELSE IF block.hash # compute_hash(block) THEN [added |-> FALSE, chain |-> c]
    ELSE [added |-> TRUE, chain |-> Append(c, block)]

\* a variant of add_block: the hash is not computed again
add_block_unverified(c, block) ==
    IF block.previous_hash # latest_block(c).hash THEN [added |-> FALSE, chain |-> c]
    ELSE IF block.hash = None THEN [added |-> FALSE, chain |-> c]
    ELSE [added |-> TRUE, chain |-> Append(c, block)]

\* Blockchain.add_transaction: the pending pool it leaves
add_transaction(pool, transaction) == Append(pool, transaction)

\* a variant of add_block: the block is inserted at the head of the list
add_block_at_head(c, block) ==
    IF block.previous_hash # latest_block(c).hash THEN [added |-> FALSE, chain |-> c]
    ELSE IF block.hash = None THEN [added |-> FALSE, chain |-> c]
    ELSE IF block.hash # compute_hash(block) THEN [added |-> FALSE, chain |-> c]
    ELSE [added |-> TRUE, chain |-> <<block>> \o c]

\* Blockchain.add_block: the return value and the chain it leaves
add_block(c, block) ==
    IF block.previous_hash # latest_block(c).hash THEN [added |-> FALSE, chain |-> c]
    ELSE IF block.hash = None THEN [added |-> FALSE, chain |-> c]
    ELSE IF block.hash # compute_hash(block) THEN [added |-> FALSE, chain |-> c]
    ELSE [added |-> TRUE, chain |-> Append(c, block)]

\* a variant of create_next_block: the pool is never cleared
create_next_block_keeping_pool(c, pool, omitted, transactions, validator, timestamp) ==
    LET txs == IF omitted THEN pool ELSE transactions
    IN [block |-> Block(height(c), timestamp, txs,
                        IF Truthy(latest_block(c).hash) THEN latest_block(c).hash ELSE <<>>,
                        validator),
        pending |-> pool]

\* a variant of create_next_block: the draft takes the index of the tip
create_next_block_at_tip_index(c, pool, omitted, transactions, validator, timestamp) ==
    LET txs == IF omitted THEN pool ELSE transactions
    IN [block |-> Block(latest_block(c).index, timestamp, txs,
                        IF Truthy(latest_block(c).hash) THEN latest_block(c).hash ELSE <<>>,
                        validator),
        pending |-> IF omitted THEN <<>> ELSE pool]

\* a variant of create_next_block: an empty transaction list is taken for a missing one
create_next_block_falsy_batch(c, pool, omitted, transactions, validator, timestamp) ==
    LET missing == omitted \/ transactions = <<>>
        txs == IF missing THEN pool ELSE transactions
    IN [block |-> Block(height(c), timestamp, txs,
                        IF Truthy(latest_block(c).hash) THEN latest_block(c).hash ELSE <<>>,
                        validator),
        pending |-> IF missing THEN <<>> ELSE pool]

\* Blockchain.create_next_block: the draft and the pending pool it leaves;
\* omitted is "transactions is None"
create_next_block(c, pool, omitted, transactions, validator, timestamp) ==
    LET txs == IF omitted THEN pool ELSE transactions
    IN [block |-> Block(height(c), timestamp, txs,
                        IF Truthy(latest_block(c).hash) THEN latest_block(c).hash ELSE <<>>,
                        validator),
        pending |-> IF omitted THEN <<>> ELSE pool]

\* Blockchain.is_valid: the loop over range(1, len(chain)), from position i (0-based)
RECURSIVE is_valid_from(_, _)
is_valid_from(c, i) ==
    IF i >= Len(c) THEN TRUE
    ELSE LET current == c[i + 1]
             previous == c[i]
         IN IF current.hash # compute_hash(current) THEN FALSE
            ELSE IF current.previous_hash # previous.hash THEN FALSE
            ELSE is_valid_from(c, i + 1)

\* a variant of is_valid: only the tip and its predecessor are checked
is_valid_tip(c) == IF Len(c) < 2 THEN TRUE ELSE is_valid_from(c, Len(c) - 1)

is_valid(c) == is_valid_from(c, 1)

(***************************************************************************)
(* consensus/base.py: ConsensusResult, with the defaults of its fields.    *)
(* block is a list of at most one block (empty for None).                  *)
(***************************************************************************)
ConsensusResult(success, block, proposer, rounds) ==
    [raised |-> FALSE, success |-> success, block |-> block, proposer |-> proposer,
     rounds |-> rounds]

\* the call raised: no result is returned
Raised == [raised |-> TRUE, success |-> FALSE, block |-> <<>>, proposer |-> None, rounds |-> 0]

(***************************************************************************)
(* consensus/pow.py                                                        *)
(***************************************************************************)
\* a variant of run_round: the draft is built from the pool before the node list is looked at
pow_run_round_drafting_first(c, pool, d, transactions, nodes, timestamp, pick) ==
    IF nodes = <<>>
    THEN [chain |-> c,
          pending |-> create_next_block(c, pool, TRUE, <<>>, None, timestamp).pending,
          result |-> ConsensusResult(FALSE, <<>>, None, 1)]
    ELSE LET miner == nodes[pick]
             draft == create_next_block(c, pool, FALSE, transactions, miner, timestamp)
             block == mine(draft.block, d)
             res   == add_block(c, block)
         IN [chain |-> res.chain, pending |-> draft.pending,
             result |-> ConsensusResult(res.added, <<block>>, miner, 1)]

\* a variant of run_round: the draft is sealed with its first hash, not mined
pow_run_round_unmined(c, pool, d, transactions, nodes, timestamp, pick) ==
    IF nodes = <<>>
    THEN [chain |-> c, pending |-> pool,
          result |-> ConsensusResult(FALSE, <<>>, None, 1)]
    ELSE LET miner == nodes[pick]
             draft == create_next_block(c, pool, FALSE, transactions, miner, timestamp)
             block == [draft.block EXCEPT !.hash = compute_hash(draft.block)]
             res   == add_block(c, block)
         IN [chain |-> res.chain, pending |-> draft.pending,
             result |-> ConsensusResult(res.added, <<block>>, miner, 1)]

\* ProofOfWork.run_round; pick is the index random.choice draws in nodes
pow_run_round(c, pool, d, transactions, nodes, timestamp, pick) ==
    IF nodes = <<>>
    THEN [chain |-> c, pending |-> pool,
          result |-> ConsensusResult(FALSE, <<>>, None, 1)]
    ELSE LET miner == nodes[pick]
             draft == create_next_block(c, pool, FALSE, transactions, miner, timestamp)
             block == mine(draft.block, d)
             res   == add_block(c, block)
         IN [chain |-> res.chain, pending |-> draft.pending,
             result |-> ConsensusResult(res.added, <<block>>, miner, 1)]

(***************************************************************************)
(* consensus/pos.py                                                        *)
(***************************************************************************)
StakeInfo(address, stake) == [address |-> address, stake |-> stake, age |-> 0]

\* ProofOfStake.__init__: stakes is the list of (address, amount) items of the dict
ProofOfStake_init(stakes) == [i \in 1..Len(stakes) |-> StakeInfo(stakes[i][1], stakes[i][2])]

\* the effective stake of _select_validator, stake * (1.0 + age_factor * age), for
\* the float age_factor = af / AgeFactorDenominator and in units of
\* 1/AgeFactorDenominator: the zero test, the sign of the total and the draw of
\* random.choices are the same for weights scaled by a positive number
effective(info, af) == info.stake * (AgeFactorDenominator + af * info.age)

RECURSIVE accumulate(_, _)
\* itertools.accumulate: the running totals of the first n weights
accumulate(weights, n) ==
    IF n = 0 THEN <<>>
    ELSE LET prefix == accumulate(weights, n - 1)
         IN Append(prefix, (IF n = 1 THEN 0 ELSE prefix[n - 1]) + weights[n])

RECURSIVE bisect(_, _, _, _)
\* bisect.bisect_right(a, x, lo, hi) for a point x of the interval [j, j+1),
\* j an integer and a a list of integers: x < a[mid] iff j < a[mid]. Positions are 0-based.
bisect(a, j, lo, hi) ==
    IF lo >= hi THEN lo
    ELSE LET mid == (lo + hi) \div 2
         IN IF j < a[mid + 1] THEN bisect(a, j, lo, mid) ELSE bisect(a, j, mid + 1, hi)

\* ProofOfStake._select_validator: the set of positions (1-based) the draw can
\* return; the empty set when random.choices raises ValueError.
select_validator(vals, af) ==
    LET weights == [i \in 1..Len(vals) |-> effective(vals[i], af)]
        cum     == accumulate(weights, Len(vals))
        total   == IF vals = <<>> THEN 0 ELSE cum[Len(vals)]
    IN IF total = 0 THEN 1..Len(vals)
       ELSE IF total < 0 THEN {}
       ELSE {bisect(cum, j, 0, Len(vals) - 1) + 1 : j \in 0..(total - 1)}

\* a variant of the coin-age update: the other validators do not age
reset_age_only(vals, proposer) ==
    [i \in 1..Len(vals) |->
        IF vals[i].address = proposer THEN [vals[i] EXCEPT !.age = 0] ELSE vals[i]]

\* a variant of the coin-age update: the proposer's age is not reset
update_ages_keeping_proposer(vals, proposer) ==
    [i \in 1..Len(vals) |->
        IF vals[i].address = proposer THEN vals[i] ELSE [vals[i] EXCEPT !.age = @ + 1]]

\* the coin-age update of a successful round
update_ages(vals, proposer) ==
    [i \in 1..Len(vals) |->
        IF vals[i].address = proposer THEN [vals[i] EXCEPT !.age = 0]
        ELSE [vals[i] EXCEPT !.age = @ + 1]]

\* ProofOfStake.run_round; pick is the position _select_validator returns
\* (0 when the selection raises)
pos_run_round(c, pool, vals, af, transactions, timestamp, pick) ==
    IF vals = <<>>
    THEN [chain |-> c, pending |-> pool, validators |-> vals,
          result |-> ConsensusResult(FALSE, <<>>, None, 1)]
    ELSE IF pick = 0
    THEN [chain |-> c, pending |-> pool, validators |-> vals, result |-> Raised]
    ELSE LET proposer == vals[pick].address
             draft == create_next_block(c, pool, FALSE, transactions, proposer, timestamp)
             block == [draft.block EXCEPT !.hash = compute_hash(draft.block)]
             res   == add_block(c, block)
         IN [chain |-> res.chain, pending |-> draft.pending,
             validators |-> IF res.added THEN update_ages(vals, proposer) ELSE vals,
             result |-> ConsensusResult(res.added, <<block>>, proposer, 1)]

(***************************************************************************)
(* consensus/dpos.py                                                       *)
(***************************************************************************)
Delegate(address, votes) == [address |-> address, votes |-> votes, blocks_produced |-> 0]

\* DelegatedProofOfStake.__init__: votes is the list of (address, votes) items of the dict
DelegatedProofOfStake_init(votes) == [i \in 1..Len(votes) |-> Delegate(votes[i][1], votes[i][2])]

\* sorted(candidates, key=votes, reverse=True): a stable sort, so candidates
\* with equal votes keep their dict order
sorted_candidates(cands) ==
    LET n == Len(cands)
        rank(i) == Cardinality({j \in 1..n : \/ cands[j].votes > cands[i].votes
                                             \/ cands[j].votes = cands[i].votes /\ j < i}) + 1
    IN [r \in 1..n |-> cands[CHOOSE i \in 1..n : rank(i) = r]]

\* the Python slice s[:k]
slice_to(s, k) ==
    LET n == Len(s)
        stop == IF k < 0 THEN (IF n + k < 0 THEN 0 ELSE n + k) ELSE (IF k < n THEN k ELSE n)
    IN SubSeq(s, 1, stop)

\* a variant of _elect_delegates: the candidates are taken in dict order, unsorted
elect_delegates_unsorted(cands, nd) ==
    LET top == slice_to(cands, nd)
    IN [i \in 1..Len(top) |-> top[i].address]

\* DelegatedProofOfStake._elect_delegates, before the shuffle
elect_delegates(cands, nd) ==
    LET top == slice_to(sorted_candidates(cands), nd)
    IN [i \in 1..Len(top) |-> top[i].address]

\* the orders random.shuffle can leave a list in
shuffles(s) == {[i \in 1..Len(s) |-> s[p[i]]] : p \in Permutations(1..Len(s))}

\* a variant of _current_delegate: the cursor is not used
first_delegate(active, ri) ==
    IF active = <<>> THEN None ELSE active[1]

\* DelegatedProofOfStake._current_delegate
current_delegate(active, ri) ==
    IF active = <<>> THEN None ELSE active[(ri % Len(active)) + 1]

\* a variant of run_round: the cursor moves only when the block is added
dpos_run_round_counting_blocks(c, pool, cands, active, ri, transactions, timestamp) ==
    LET delegate == current_delegate(active, ri)
    IN IF delegate = None
       THEN [chain |-> c, pending |-> pool, candidates |-> cands, round_index |-> ri,
             result |-> ConsensusResult(FALSE, <<>>, None, 1)]
       ELSE LET draft == create_next_block(c, pool, FALSE, transactions, delegate, timestamp)
                block == [draft.block EXCEPT !.hash = compute_hash(draft.block)]
                res   == add_block(c, block)
            IN [chain |-> res.chain, pending |-> draft.pending,
                candidates |->
                    [i \in 1..Len(cands) |->
                        IF res.added /\ cands[i].address = delegate
                        THEN [cands[i] EXCEPT !.blocks_produced = @ + 1] ELSE cands[i]],
                round_index |-> IF res.added THEN ri + 1 ELSE ri,
                result |-> ConsensusResult(res.added, <<block>>, delegate, 1)]

\* a variant of run_round: the proposer's votes are counted up with its blocks
dpos_run_round_counting_votes(c, pool, cands, active, ri, transactions, timestamp) ==
    LET delegate == current_delegate(active, ri)
    IN IF delegate = None
       THEN [chain |-> c, pending |-> pool, candidates |-> cands, round_index |-> ri,
             result |-> ConsensusResult(FALSE, <<>>, None, 1)]
       ELSE LET draft == create_next_block(c, pool, FALSE, transactions, delegate, timestamp)
                block == [draft.block EXCEPT !.hash = compute_hash(draft.block)]
                res   == add_block(c, block)
            IN [chain |-> res.chain, pending |-> draft.pending,
                candidates |->
                    [i \in 1..Len(cands) |->
                        IF res.added /\ cands[i].address = delegate
                        THEN [cands[i] EXCEPT !.blocks_produced = @ + 1, !.votes = @ + 1] ELSE cands[i]],
                round_index |-> ri + 1,
                result |-> ConsensusResult(res.added, <<block>>, delegate, 1)]

\* a variant of run_round: the proposer's counter goes up whether or not the block is added
dpos_run_round_counting_rounds(c, pool, cands, active, ri, transactions, timestamp) ==
    LET delegate == current_delegate(active, ri)
    IN IF delegate = None
       THEN [chain |-> c, pending |-> pool, candidates |-> cands, round_index |-> ri,
             result |-> ConsensusResult(FALSE, <<>>, None, 1)]
       ELSE LET draft == create_next_block(c, pool, FALSE, transactions, delegate, timestamp)
                block == [draft.block EXCEPT !.hash = compute_hash(draft.block)]
                res   == add_block(c, block)
            IN [chain |-> res.chain, pending |-> draft.pending,
                candidates |->
                    [i \in 1..Len(cands) |->
                        IF cands[i].address = delegate
                        THEN [cands[i] EXCEPT !.blocks_produced = @ + 1] ELSE cands[i]],
                round_index |-> ri + 1,
                result |-> ConsensusResult(res.added, <<block>>, delegate, 1)]

\* DelegatedProofOfStake.run_round
dpos_run_round(c, pool, cands, active, ri, transactions, timestamp) ==
    LET delegate == current_delegate(active, ri)
    IN IF delegate = None
       THEN [chain |-> c, pending |-> pool, candidates |-> cands, round_index |-> ri,
             result |-> ConsensusResult(FALSE, <<>>, None, 1)]
       ELSE LET draft == create_next_block(c, pool, FALSE, transactions, delegate, timestamp)
                block == [draft.block EXCEPT !.hash = compute_hash(draft.block)]
                res   == add_block(c, block)
            IN [chain |-> res.chain, pending |-> draft.pending,
                candidates |->
                    [i \in 1..Len(cands) |->
                        IF res.added /\ cands[i].address = delegate
                        THEN [cands[i] EXCEPT !.blocks_produced = @ + 1] ELSE cands[i]],
                round_index |-> ri + 1,
                result |-> ConsensusResult(res.added, <<block>>, delegate, 1)]

(***************************************************************************)
(* consensus/pbft.py                                                       *)
(***************************************************************************)
PBFTNode(address, is_byzantine) ==
    [address |-> address, is_byzantine |-> is_byzantine, prepares_received |-> {},
     commits_received |-> {}, prepared |-> FALSE, committed |-> FALSE]

\* a variant of the tolerance check: f compared with n // 3
exceeds_third(nodes, byzantine_nodes) == byzantine_nodes > Len(nodes) \div 3

\* the tolerance check of PracticalBFT.__init__: TRUE when it raises ValueError
exceeds_tolerance(nodes, byzantine_nodes) == byzantine_nodes > (Len(nodes) - 1) \div 3

\* random.sample(nodes, k): the sets of positions it can draw; none when it
\* raises ValueError (k negative or larger than the population)
sample_positions(nodes, k) ==
    IF k < 0 \/ k > Len(nodes) THEN {}
    ELSE {P \in SUBSET (1..Len(nodes)) : Cardinality(P) = k}

\* PracticalBFT.__init__: the pbft_nodes dict, for the drawn sample
PracticalBFT_init(nodes, sample) ==
    LET byzantine_set == {nodes[i] : i \in sample}
    IN [addr \in {nodes[i] : i \in 1..Len(nodes)} |-> PBFTNode(addr, addr \in byzantine_set)]

\* a variant of _quorum: 3f + 1 messages
quorum_of_all_but_f(f) == 3 * f + 1

\* PracticalBFT._quorum
quorum(f) == 2 * f + 1

\* a variant of _reset_round: the Byzantine mark is cleared with the tallies
reset_round_clearing_faults(pnodes) ==
    [a \in DOMAIN pnodes |->
        [pnodes[a] EXCEPT !.prepares_received = {}, !.commits_received = {},
                          !.prepared = FALSE, !.committed = FALSE, !.is_byzantine = FALSE]]

\* PracticalBFT._reset_round
reset_round(pnodes) ==
    [a \in DOMAIN pnodes |->
        [pnodes[a] EXCEPT !.prepares_received = {}, !.commits_received = {},
                          !.prepared = FALSE, !.committed = FALSE]]

\* a variant of _phase_prepare: Byzantine nodes are not skipped
phase_prepare_of_all(pnodes) == DOMAIN pnodes

\* PracticalBFT._phase_prepare: the senders of the PREPARE messages
phase_prepare(pnodes) == {a \in DOMAIN pnodes : ~pnodes[a].is_byzantine}

\* a variant of _phase_commit: Byzantine nodes are not skipped
phase_commit_of_all(pnodes, f) ==
    {a \in DOMAIN pnodes : Cardinality(pnodes[a].prepares_received) >= quorum(f)}

\* PracticalBFT._phase_commit: the senders of the COMMIT messages
phase_commit(pnodes, f) ==
    {a \in DOMAIN pnodes : /\ ~pnodes[a].is_byzantine
                           /\ Cardinality(pnodes[a].prepares_received) >= quorum(f)}

\* a variant of run_round: the view advances only when consensus is reached
pbft_run_round_view_on_consensus(c, pool, nlist, f, v, pnodes, transactions, timestamp) ==
    LET n == Len(nlist)
        leader == nlist[(v % n) + 1]
        draft == create_next_block(c, pool, FALSE, transactions, leader, timestamp)
        block == [draft.block EXCEPT !.hash = compute_hash(draft.block)]
        nodes0 == reset_round(pnodes)
        prepare_msgs == phase_prepare(nodes0)
        nodes1 == [a \in DOMAIN nodes0 |->
                      [nodes0[a] EXCEPT !.prepares_received = @ \cup prepare_msgs]]
        commit_msgs == phase_commit(nodes1, f)
        nodes2 == [a \in DOMAIN nodes1 |->
                      [nodes1[a] EXCEPT !.prepared = (a \in commit_msgs),
                                        !.commits_received = @ \cup commit_msgs]]
        committed_count ==
            Cardinality({a \in DOMAIN nodes2 :
                            /\ Cardinality(nodes2[a].commits_received) >= quorum(f)
                            /\ ~nodes2[a].is_byzantine})
        consensus_reached == committed_count >= quorum(f)
        res == add_block(c, block)
    IN IF consensus_reached
       THEN [chain |-> res.chain, pending |-> draft.pending, view |-> v + 1, pbft_nodes |-> nodes2,
             result |-> ConsensusResult(res.added, <<block>>, leader, 3)]
       ELSE [chain |-> c, pending |-> draft.pending, view |-> v, pbft_nodes |-> nodes2,
             result |-> ConsensusResult(FALSE, <<>>, leader, 3)]

\* PracticalBFT.run_round
pbft_run_round(c, pool, nlist, f, v, pnodes, transactions, timestamp) ==
    LET n == Len(nlist)
        leader == nlist[(v % n) + 1]
        draft == create_next_block(c, pool, FALSE, transactions, leader, timestamp)
        block == [draft.block EXCEPT !.hash = compute_hash(draft.block)]
        nodes0 == reset_round(pnodes)
        prepare_msgs == phase_prepare(nodes0)
        nodes1 == [a \in DOMAIN nodes0 |->
                      [nodes0[a] EXCEPT !.prepares_received = @ \cup prepare_msgs]]
        commit_msgs == phase_commit(nodes1, f)
        nodes2 == [a \in DOMAIN nodes1 |->
                      [nodes1[a] EXCEPT !.prepared = (a \in commit_msgs),
                                        !.commits_received = @ \cup commit_msgs]]
        committed_count ==
            Cardinality({a \in DOMAIN nodes2 :
                            /\ Cardinality(nodes2[a].commits_received) >= quorum(f)
                            /\ ~nodes2[a].is_byzantine})
        consensus_reached == committed_count >= quorum(f)
        res == add_block(c, block)
    IN IF consensus_reached
       THEN [chain |-> res.chain, pending |-> draft.pending, view |-> v + 1, pbft_nodes |-> nodes2,
             result |-> ConsensusResult(res.added, <<block>>, leader, 3)]
       ELSE [chain |-> c, pending |-> draft.pending, view |-> v + 1, pbft_nodes |-> nodes2,
             result |-> ConsensusResult(FALSE, <<>>, leader, 3)]

(***************************************************************************)
(* Inputs                                                                  *)
(***************************************************************************)
\* node addresses: "a", "b", ...
NodeName(i) == <<Alphabet[10 + i]>>

Names(n) == [i \in 1..n |-> NodeName(i)]

T1 == Transaction(NodeName(1), NodeName(2), 1, 1)

T2 == Transaction(NodeName(2), NodeName(1), 2, 1)

TxBatches == {<<>>, <<T1, T2>>}

\* time.time(): the clock is read once in a call and advances between calls
Clock == {calls + 1}

\* the active node lists passed to run_round
NodeArgs == {<<>>, Names(MaxMiners)}

\* a draft with its hash assigned, as the stake-based protocols seal it
sealed(block) == [block EXCEPT !.hash = compute_hash(block)]

\* a block constructed without a hash, as Blockchain(chain=[Block(...)]) accepts it
Unsealed == Block(0, 0, <<>>, <<>>, None)

\* a second block for a chain handed to the Blockchain constructor
Second(previous_hash) == sealed(Block(1, 1, <<T1>>, previous_hash, NodeName(1)))

\* Blockchain(), and Blockchain(chain=[...]) with a list of the caller's: a block
\* without hash, a linked second block, a second block that is not linked
InitialChains ==
    {Blockchain(<<>>),
     Blockchain(<<Unsealed>>),
     Blockchain(<<genesis, Second(genesis.hash)>>),
     Blockchain(<<genesis, Second(<<>>)>>)}

\* dicts of n entries, as lists of (address, value) items in insertion order
Items(n, values) == {[i \in 1..n |-> <<NodeName(i), f[i]>>] : f \in [1..n -> values]}

StakeDicts == UNION {Items(n, 0..MaxStake) : n \in 0..MaxValidators}

AgeFactors == (0 - MaxAgeDiscount)..1

VoteDicts == UNION {Items(n, 0..MaxVotes) : n \in 0..MaxCandidates}

NumDelegates == -1..MaxCandidates

\* validator lists: distinct addresses, and lists that name the first address twice
NodeLists == {Names(n) : n \in 0..MaxNodes}
             \cup {[Names(n) EXCEPT ![n] = NodeName(1)] : n \in 2..MaxNodes}

ByzantineCounts == -1..MaxByzantine

\* the positions _select_validator can return; 0 stands for "it raises"
draws(vals, af) ==
    IF vals = <<>> \/ select_validator(vals, af) = {} THEN {0} ELSE select_validator(vals, af)

(***************************************************************************)
(* The calls. last records the call just made; history the run_round calls *)
(* made so far.                                                            *)
(***************************************************************************)
NoResult == ConsensusResult(FALSE, <<>>, None, 0)

Call(op, result, added, arg, transactions, nodes) ==
    [op |-> op, result |-> result, added |-> added, arg |-> arg,
     transactions |-> transactions, nodes |-> nodes]

Record(kind, result) == [protocol |-> kind, proposer |-> result.proposer,
                         success |-> result.success, raised |-> result.raised]

\* the run_round calls made so far on the instance of a protocol
Rounds(kind) == Cardinality({i \in 1..Len(history) : history[i].protocol = kind})

ChainVars == <<chain, pending_transactions>>

PowVars == <<difficulty>>

PosVars == <<validators, age_factor>>

DposVars == <<candidates, num_delegates, active_delegates, round_index>>

PbftVars == <<node_list, byzantine_count, view, pbft_nodes>>

\* a constructor returned: arg holds the protocol and the constructor's arguments
Constructed(kind, arg) ==
    /\ protocol' = protocol \cup {kind}
    /\ last' = Call("construct", NoResult, FALSE, <<kind>> \o arg, <<>>, <<>>)
    /\ calls' = calls + 1
    /\ UNCHANGED <<inflight, sim>>
    /\ UNCHANGED <<ChainVars, history>>

Returned(kind, result, transactions, nodes) ==
    /\ last' = Call(kind, result, FALSE, <<>>, transactions, nodes)
    /\ history' = Append(history, Record(kind, result))
    /\ calls' = calls + 1
    /\ UNCHANGED <<inflight, sim>>
    /\ UNCHANGED protocol

\* a Blockchain has been constructed, no protocol instance yet
InitChain ==
    /\ chain \in InitialChains
    /\ pending_transactions = <<>>
    /\ protocol = {}
    /\ difficulty = 0
    /\ validators = <<>> /\ age_factor = 0
    /\ candidates = <<>> /\ num_delegates = 0 /\ active_delegates = <<>> /\ round_index = 0
    /\ node_list = <<>> /\ byzantine_count = 0 /\ view = 0 /\ pbft_nodes = <<>>
    /\ last = Call("init", NoResult, FALSE, <<>>, <<>>, <<>>)
    /\ history = <<>>
    /\ calls = 0
    /\ inflight = <<>>
    /\ sim = <<>>

\* ProofOfWork(difficulty=d)
NewProofOfWork(d) ==
    /\ difficulty' = d
    /\ UNCHANGED <<PosVars, DposVars, PbftVars>>
    /\ Constructed("pow", <<d>>)

\* ProofOfStake(stakes=, age_factor=)
NewProofOfStake(stakes, af) ==
    /\ validators' = ProofOfStake_init(stakes)
    /\ age_factor' = af
    /\ UNCHANGED <<PowVars, DposVars, PbftVars>>
    /\ Constructed("pos", <<stakes, af>>)

\* DelegatedProofOfStake(votes=, num_delegates=)
NewDelegatedProofOfStake(votes, nd) ==
    /\ candidates' = DelegatedProofOfStake_init(votes)
    /\ num_delegates' = nd
    /\ active_delegates' \in shuffles(elect_delegates(DelegatedProofOfStake_init(votes), nd))
    /\ round_index' = 0
    /\ UNCHANGED <<PowVars, PosVars, PbftVars>>
    /\ Constructed("dpos", <<votes, nd>>)

\* PracticalBFT(nodes=, byzantine_nodes=): raises ValueError, and leaves no
\* instance, when the tolerance check or random.sample rejects the count
NewPracticalBFT(nodes, byzantine_nodes) ==
    IF exceeds_tolerance(nodes, byzantine_nodes) \/ sample_positions(nodes, byzantine_nodes) = {}
    THEN /\ last' = Call("construct", Raised, FALSE, <<"pbft", nodes, byzantine_nodes>>, <<>>, <<>>)
         /\ calls' = calls + 1
         /\ UNCHANGED <<inflight, sim>>
         /\ UNCHANGED <<ChainVars, protocol, PowVars, PosVars, DposVars, PbftVars, history>>
    ELSE /\ \E sample \in sample_positions(nodes, byzantine_nodes) :
                pbft_nodes' = PracticalBFT_init(nodes, sample)
         /\ node_list' = nodes
         /\ byzantine_count' = byzantine_nodes
         /\ view' = 0
         /\ UNCHANGED <<PowVars, PosVars, DposVars>>
         /\ Constructed("pbft", <<nodes, byzantine_nodes>>)

PowRound(transactions, nodes, timestamp, pick) ==
    /\ "pow" \in protocol
    /\ IF nodes = <<>> THEN pick = 1
       ELSE /\ pick <= Len(nodes)
            /\ mine_ends(create_next_block(chain, pending_transactions, FALSE,
                                           transactions, nodes[pick], timestamp).block,
                         difficulty)
    /\ \E r \in {pow_run_round(chain, pending_transactions, difficulty, transactions, nodes,
                               timestamp, pick)} :
           /\ chain' = r.chain
           /\ pending_transactions' = r.pending
           /\ Returned("pow", r.result, transactions, nodes)
           /\ UNCHANGED <<PowVars, PosVars, DposVars, PbftVars>>

PosRound(transactions, nodes, timestamp, pick) ==
    /\ "pos" \in protocol
    /\ \E r \in {pos_run_round(chain, pending_transactions, validators, age_factor,
                               transactions, timestamp, pick)} :
           /\ chain' = r.chain
           /\ pending_transactions' = r.pending
           /\ validators' = r.validators
           /\ Returned("pos", r.result, transactions, nodes)
           /\ UNCHANGED <<PowVars, age_factor, DposVars, PbftVars>>

DposRound(transactions, nodes, timestamp) ==
    /\ "dpos" \in protocol
    /\ \E r \in {dpos_run_round(chain, pending_transactions, candidates, active_delegates,
                                round_index, transactions, timestamp)} :
           /\ chain' = r.chain
           /\ pending_transactions' = r.pending
           /\ candidates' = r.candidates
           /\ round_index' = r.round_index
           /\ Returned("dpos", r.result, transactions, nodes)
           /\ UNCHANGED <<PowVars, PosVars, num_delegates, active_delegates, PbftVars>>

PbftRound(transactions, nodes, timestamp) ==
    /\ "pbft" \in protocol
    /\ \E r \in {pbft_run_round(chain, pending_transactions, node_list, byzantine_count, view,
                                pbft_nodes, transactions, timestamp)} :
           /\ chain' = r.chain
           /\ pending_transactions' = r.pending
           /\ view' = r.view
           /\ pbft_nodes' = r.pbft_nodes
           /\ Returned("pbft", r.result, transactions, nodes)
           /\ UNCHANGED <<PowVars, PosVars, DposVars, node_list, byzantine_count>>

\* run_round of each protocol, over the inputs of the model
PowRunRound ==
    \E transactions \in TxBatches, nodes \in NodeArgs, timestamp \in Clock, pick \in 1..MaxMiners :
        PowRound(transactions, nodes, timestamp, pick)

PosRunRound ==
    \E transactions \in TxBatches, nodes \in NodeArgs, timestamp \in Clock,
       pick \in draws(validators, age_factor) :
        PosRound(transactions, nodes, timestamp, pick)

DposRunRound ==
    \E transactions \in TxBatches, nodes \in NodeArgs, timestamp \in Clock :
        DposRound(transactions, nodes, timestamp)

PbftRunRound ==
    \E transactions \in TxBatches, nodes \in NodeArgs, timestamp \in Clock :
        PbftRound(transactions, nodes, timestamp)

(***************************************************************************)
(* One protocol at a time: an instance is constructed over a chain and its *)
(* rounds run.                                                             *)
(***************************************************************************)
ConstructPoW == last.op = "init" /\ \E d \in 0..MaxDifficulty : NewProofOfWork(d)

ConstructPoS ==
    last.op = "init" /\ \E stakes \in StakeDicts, af \in AgeFactors : NewProofOfStake(stakes, af)

ConstructDPoS ==
    last.op = "init" /\ \E votes \in VoteDicts, nd \in NumDelegates :
                            NewDelegatedProofOfStake(votes, nd)

ConstructPBFT ==
    last.op = "init" /\ \E nodes \in NodeLists, f \in ByzantineCounts : NewPracticalBFT(nodes, f)

NextPoW == ConstructPoW \/ (Rounds("pow") < MaxPowRounds /\ PowRunRound)

NextPoS == ConstructPoS \/ (Rounds("pos") < MaxPosRounds /\ PosRunRound)

NextDPoS == ConstructDPoS \/ (Rounds("dpos") < MaxDposRounds /\ DposRunRound)

NextPBFT == ConstructPBFT \/ (Rounds("pbft") < MaxPbftRounds /\ PbftRunRound)

SpecPoW == InitChain /\ [][NextPoW]_vars

SpecPoS == InitChain /\ [][NextPoS]_vars

SpecDPoS == InitChain /\ [][NextDPoS]_vars

SpecPBFT == InitChain /\ [][NextPBFT]_vars

(***************************************************************************)
(* The chain used directly: add_block with blocks of the caller's, and     *)
(* blocks of the chain changed after they were appended.                   *)
(***************************************************************************)
\* the blocks a caller can hand to add_block: the next draft as it is, sealed,
\* sealed before its nonce changed, sealed over another previous_hash, sealed
\* with another index
BlockArgs ==
    UNION {LET draft == create_next_block(chain, pending_transactions, FALSE, transactions,
                                          None, timestamp).block
           IN {draft,
               sealed(draft),
               [sealed(draft) EXCEPT !.nonce = @ + 1],
               sealed([draft EXCEPT !.previous_hash = <<"0">>]),
               sealed([draft EXCEPT !.index = @ + 1])}
           : transactions \in TxBatches, timestamp \in Clock}

\* blockchain.add_block(block)
AddBlock(block) ==
    \E r \in {add_block(chain, block)} :
        /\ chain' = r.chain
        /\ last' = Call("add_block", NoResult, r.added, <<block>>, <<>>, <<>>)
        /\ calls' = calls + 1
        /\ UNCHANGED <<inflight, sim>>
        /\ UNCHANGED <<pending_transactions, protocol, PowVars, PosVars, DposVars, PbftVars,
                       history>>

AddBlockCall == \E block \in BlockArgs : AddBlock(block)

Mutation(field, position) ==
    [op |-> "mutate", field |-> field, position |-> position]

Mutated(c, field, position) ==
    /\ c # chain
    /\ chain' = c
    /\ last' = Mutation(field, position)
    /\ calls' = calls + 1
    /\ UNCHANGED <<inflight, sim>>
    /\ UNCHANGED <<pending_transactions, protocol, PowVars, PosVars, DposVars, PbftVars, history>>

\* blockchain.chain[i].nonce = ...   (positions are 0-based, as in the code)
MutateNonce(i) == Mutated([chain EXCEPT ![i + 1].nonce = @ + 1], "nonce", i)

\* blockchain.chain[i].transactions[j].<field> = ...
MutateTransaction(i, j, field) ==
    /\ j + 1 \in DOMAIN chain[i + 1].transactions
    /\ LET tx == chain[i + 1].transactions[j + 1]
           new == CASE field = "sender" -> [tx EXCEPT !.sender = NodeName(3)]
                    [] field = "recipient" -> [tx EXCEPT !.recipient = NodeName(3)]
                    [] field = "amount" -> [tx EXCEPT !.amount = @ + 1]
                    [] field = "timestamp" -> [tx EXCEPT !.timestamp = @ + 1]
                    [] field = "tx_id" -> [tx EXCEPT !.tx_id = <<"0">>]
       IN Mutated([chain EXCEPT ![i + 1].transactions[j + 1] = new], field, i)

TransactionFields == {"sender", "recipient", "amount", "timestamp", "tx_id"}

\* blockchain.chain[i].hash = ...: dropped, emptied, or computed again
MutateHash(i) ==
    \E h \in {None, <<>>, compute_hash(chain[i + 1])} :
        Mutated([chain EXCEPT ![i + 1].hash = h], "hash", i)

\* blockchain.chain[i].previous_hash = ...
MutatePreviousHash(i) ==
    Mutated([chain EXCEPT ![i + 1].previous_hash = <<"0">>], "previous_hash", i)

\* blockchain.chain[i].validator = ...: dropped, the string "None", another address
MutateValidator(i) ==
    \E v \in {None, <<"N", "o", "n", "e">>, NodeName(3)} :
        Mutated([chain EXCEPT ![i + 1].validator = v], "validator", i)

\* blockchain.chain[i].index = ...
MutateIndex(i) == Mutated([chain EXCEPT ![i + 1].index = @ + 1], "index", i)

Mutate ==
    \E i \in 0..(Len(chain) - 1) :
        \/ MutateNonce(i)
        \/ MutateValidator(i)
        \/ MutateIndex(i)
        \/ \E j \in 0..1, field \in TransactionFields : MutateTransaction(i, j, field)
        \/ MutateHash(i)
        \/ MutatePreviousHash(i)

NextChain == calls < MaxChainCalls /\ (AddBlockCall \/ Mutate)

SpecChain == InitChain /\ [][NextChain]_vars

(***************************************************************************)
(* Blocks of the chain mined in place, from the nonce they hold.           *)
(***************************************************************************)
Mined(block, d, returned, position) ==
    [op |-> "mine", block |-> block, difficulty |-> d, returned |-> returned,
     position |-> position]

\* blockchain.chain[i].mine(d), for a search that ends within the bound
MineBlock(i, d) ==
    /\ mine_ends(chain[i + 1], d)
    /\ chain' = [chain EXCEPT ![i + 1] = mine(chain[i + 1], d)]
    /\ last' = Mined(chain[i + 1], d, mine_returns(chain[i + 1], d), i)
    /\ calls' = calls + 1
    /\ UNCHANGED <<inflight, sim>>
    /\ UNCHANGED <<pending_transactions, protocol, PowVars, PosVars, DposVars, PbftVars, history>>

MineCall == \E i \in 0..(Len(chain) - 1), d \in 0..MaxDifficulty : MineBlock(i, d)

NextMine == calls < MaxChainCalls /\ (MineCall \/ Mutate)

SpecMine == InitChain /\ [][NextMine]_vars

(***************************************************************************)
(* The pending pool: transactions added to it and drafts built by the      *)
(* caller.                                                                 *)
(***************************************************************************)
\* blockchain.add_transaction(transaction)
AddTransaction(transaction) ==
    /\ pending_transactions' = add_transaction(pending_transactions, transaction)
    /\ last' = [op |-> "add_transaction", transaction |-> transaction]
    /\ calls' = calls + 1
    /\ UNCHANGED <<inflight, sim>>
    /\ UNCHANGED <<chain, protocol, PowVars, PosVars, DposVars, PbftVars, history>>

AddTransactionCall == \E transaction \in {T1, T2} : AddTransaction(transaction)

\* blockchain.create_next_block(transactions=, validator=); omitted stands for
\* a call without the transactions argument
CreateNextBlock(omitted, transactions, validator, timestamp) ==
    \E r \in {create_next_block(chain, pending_transactions, omitted, transactions, validator,
                                timestamp)} :
        /\ pending_transactions' = r.pending
        /\ last' = [op |-> "create_next_block", omitted |-> omitted,
                    transactions |-> transactions, validator |-> validator, block |-> r.block]
        /\ calls' = calls + 1
        /\ UNCHANGED <<inflight, sim>>
        /\ UNCHANGED <<chain, protocol, PowVars, PosVars, DposVars, PbftVars, history>>

CreateNextBlockCall ==
    \E validator \in {None, NodeName(1)}, timestamp \in Clock :
        \/ CreateNextBlock(TRUE, <<>>, validator, timestamp)
        \/ \E transactions \in TxBatches : CreateNextBlock(FALSE, transactions, validator, timestamp)

NextPool == calls < MaxPoolCalls /\ (AddTransactionCall \/ CreateNextBlockCall)

SpecPool == InitChain /\ [][NextPool]_vars

(***************************************************************************)
(* Rounds without participants: a chain with a pending pool, a             *)
(* ProofOfWork instance and a ProofOfStake instance without validators.    *)
(***************************************************************************)
InitIdle ==
    /\ chain \in InitialChains
    /\ pending_transactions \in {<<>>, <<T1>>}
    /\ protocol = {"pow", "pos"}
    /\ difficulty = 1
    /\ validators = ProofOfStake_init(<<>>)
    /\ age_factor = 1
    /\ candidates = <<>> /\ num_delegates = 0 /\ active_delegates = <<>> /\ round_index = 0
    /\ node_list = <<>> /\ byzantine_count = 0 /\ view = 0 /\ pbft_nodes = <<>>
    /\ last = Call("init", NoResult, FALSE, <<>>, <<>>, <<>>)
    /\ history = <<>>
    /\ calls = 0
    /\ inflight = <<>>
    /\ sim = <<>>

NextIdle == calls < MaxCalls /\ (PowRunRound \/ PosRunRound \/ AddTransactionCall)

SpecIdle == InitIdle /\ [][NextIdle]_vars

(***************************************************************************)
(* Proof of stake with three validators: the stakes and the age factor are *)
(* the constructor's, the ages those the rounds leave.                     *)
(***************************************************************************)
InitStake ==
    /\ chain \in InitialChains
    /\ pending_transactions = <<>>
    /\ protocol = {"pos"}
    /\ difficulty = 0
    /\ \E stakes \in Items(3, 0..MaxStake) : validators = ProofOfStake_init(stakes)
    /\ age_factor \in AgeFactors
    /\ candidates = <<>> /\ num_delegates = 0 /\ active_delegates = <<>> /\ round_index = 0
    /\ node_list = <<>> /\ byzantine_count = 0 /\ view = 0 /\ pbft_nodes = <<>>
    /\ last = Call("init", NoResult, FALSE, <<>>, <<>>, <<>>)
    /\ history = <<>>
    /\ calls = 0
    /\ inflight = <<>>
    /\ sim = <<>>

\* run_round(chain, [], []): neither argument is read by the selection
StakeRound ==
    \E timestamp \in Clock, pick \in draws(validators, age_factor) :
        PosRound(<<>>, <<>>, timestamp, pick)

NextStake == Rounds("pos") < MaxPosRounds /\ StakeRound

SpecStake == InitStake /\ [][NextStake]_vars

(***************************************************************************)
(* Two rounds interleaved on one chain. A round drafts the next block with *)
(* create_next_block and seals it, and later hands it to add_block; each   *)
(* of the two calls is atomic, and the other round may run between them.   *)
(***************************************************************************)
InFlight == {1, 2}

Idle == [pc |-> "idle", block |-> <<>>, added |-> FALSE]

InitInterleaved ==
    /\ chain \in InitialChains
    /\ pending_transactions = <<>>
    /\ protocol = {}
    /\ difficulty = 0
    /\ validators = <<>> /\ age_factor = 0
    /\ candidates = <<>> /\ num_delegates = 0 /\ active_delegates = <<>> /\ round_index = 0
    /\ node_list = <<>> /\ byzantine_count = 0 /\ view = 0 /\ pbft_nodes = <<>>
    /\ last = Call("init", NoResult, FALSE, <<>>, <<>>, <<>>)
    /\ history = <<>>
    /\ calls = 0
    /\ inflight = [p \in InFlight |-> Idle]
    /\ sim = <<>>

\* block = blockchain.create_next_block(transactions=, validator=); block.hash = block.compute_hash()
Draft(p, transactions, validator, timestamp) ==
    /\ inflight[p].pc = "idle"
    /\ \E r \in {create_next_block(chain, pending_transactions, FALSE, transactions,
                                   validator, timestamp)} :
          /\ pending_transactions' = r.pending
          /\ inflight' = [inflight EXCEPT ![p] = [pc |-> "drafted", block |-> <<sealed(r.block)>>,
                                                  added |-> FALSE]]
          /\ last' = Call("draft", NoResult, FALSE, <<sealed(r.block)>>, transactions, <<>>)
    /\ calls' = calls + 1
    /\ UNCHANGED <<chain, protocol, PowVars, PosVars, DposVars, PbftVars, history, sim>>

\* added = blockchain.add_block(block)
Commit(p) ==
    /\ inflight[p].pc = "drafted"
    /\ \E r \in {add_block(chain, inflight[p].block[1])} :
          /\ chain' = r.chain
          /\ inflight' = [inflight EXCEPT ![p].pc = "done", ![p].added = r.added]
          /\ last' = Call("add_block", NoResult, r.added, inflight[p].block, <<>>, <<>>)
    /\ calls' = calls + 1
    /\ UNCHANGED <<pending_transactions, protocol, PowVars, PosVars, DposVars, PbftVars, history,
                   sim>>

DraftCall ==
    \E p \in InFlight, transactions \in TxBatches, validator \in {NodeName(1), NodeName(2)},
       timestamp \in Clock :
        Draft(p, transactions, validator, timestamp)

CommitCall == \E p \in InFlight : Commit(p)

NextInterleaved == DraftCall \/ CommitCall

SpecInterleaved == InitInterleaved /\ [][NextInterleaved]_vars

(***************************************************************************)
(* The system: one chain, an instance of each protocol, rounds in any      *)
(* order, and blocks added by the caller.                                  *)
(***************************************************************************)
Stakes == <<<<NodeName(1), 1>>, <<NodeName(2), 1>>>>

Votes == <<<<NodeName(1), 1>>, <<NodeName(2), 1>>>>

Init ==
    /\ chain \in InitialChains
    /\ pending_transactions = <<>>
    /\ protocol = {"pow", "pos", "dpos", "pbft"}
    /\ difficulty = 1
    /\ validators = ProofOfStake_init(Stakes)
    /\ age_factor = 1
    /\ candidates = DelegatedProofOfStake_init(Votes)
    /\ num_delegates = 1
    /\ active_delegates \in shuffles(elect_delegates(DelegatedProofOfStake_init(Votes), 1))
    /\ round_index = 0
    /\ node_list = Names(4)
    /\ byzantine_count = 0
    /\ view = 0
    /\ pbft_nodes \in {PracticalBFT_init(Names(4), sample) : sample \in sample_positions(Names(4), 0)}
    /\ last = Call("init", NoResult, FALSE, <<>>, <<>>, <<>>)
    /\ history = <<>>
    /\ calls = 0
    /\ inflight = <<>>
    /\ sim = <<>>

Next ==
    /\ calls < MaxCalls
    /\ \/ PowRunRound
       \/ PosRunRound
       \/ DposRunRound
       \/ PbftRunRound
       \/ AddBlockCall

Spec == Init /\ [][Next]_vars

\* the system with a pool: rounds of the four protocols in any order, and
\* transactions added to the pool by the caller
NextLedger ==
    /\ calls < MaxCalls
    /\ \/ PowRunRound
       \/ PosRunRound
       \/ DposRunRound
       \/ PbftRunRound
       \/ AddTransactionCall

SpecLedger == Init /\ [][NextLedger]_vars

(***************************************************************************)
(* network/node.py, network/simulator.py: NetworkSimulator.run drives the  *)
(* rounds of its protocol over its chain. sim holds the simulator's nodes, *)
(* the config, the locals of run and the report run returns; pc is "loop"  *)
(* while run is in its loop, "done" once it returned, "raised" once an     *)
(* exception left it.                                                      *)
(***************************************************************************)
\* NetworkNode: the fields run reads and writes
NetworkNode(address, is_active) ==
    [address |-> address, is_active |-> is_active, blocks_produced |-> 0]

SimulationConfig(num_rounds, txs_per_round) ==
    [num_rounds |-> num_rounds, txs_per_round |-> txs_per_round]

RoundResult(round_number, consensus_result, chain_height, pending_txs) ==
    [round_number |-> round_number, consensus_result |-> consensus_result,
     chain_height |-> chain_height, pending_txs |-> pending_txs]

SimulationReport(config, rounds, final_chain_height, total_txs) ==
    LET successful == Cardinality({i \in DOMAIN rounds : rounds[i].consensus_result.success})
    IN [config |-> config, rounds |-> rounds, final_chain_height |-> final_chain_height,
        successful_rounds |-> successful, failed_rounds |-> Len(rounds) - successful,
        total_transactions_processed |-> total_txs]

\* random.sample(self.nodes, 2): two distinct positions of the list
sample_pairs(nodes) == {pair \in (DOMAIN nodes) \X (DOMAIN nodes) : pair[1] # pair[2]}

\* the batches _generate_transactions(count) can return; every amount drawn is 1
generate_transactions(nodes, count, timestamp) ==
    IF Len(nodes) < 2 \/ count <= 0 THEN {<<>>}
    ELSE {[k \in 1..count |-> Transaction(nodes[draw[k][1]].address, nodes[draw[k][2]].address,
                                          1, timestamp)] :
          draw \in [1..count -> sample_pairs(nodes)]}

\* [n.address for n in self.nodes if n.is_active]
node_addresses(nodes) ==
    LET active == SelectSeq(nodes, LAMBDA n : n.is_active)
    IN [i \in DOMAIN active |-> active[i].address]

\* run returns its report
returned(s, c) ==
    [s EXCEPT !.pc = "done",
              !.report = <<SimulationReport(s.config, s.rounds, height(c), s.total_txs)>>]

\* the rest of a loop iteration once run_round has answered with result, the
\* chain being c and the pool being pool; after the last iteration run returns
round_done(s, result, txs, c, pool) ==
    IF result.raised THEN [s EXCEPT !.pc = "raised"]
    ELSE LET counted ==
                 [s EXCEPT !.total_txs = IF result.success THEN @ + Len(txs) ELSE @,
                           !.nodes = [k \in DOMAIN s.nodes |->
                                          IF result.success /\ s.nodes[k].address = result.proposer
                                          THEN [s.nodes[k] EXCEPT !.blocks_produced = @ + 1]
                                          ELSE s.nodes[k]],
                           !.rounds = Append(@, RoundResult(Len(s.rounds) + 1, result,
                                                            height(c), Len(pool)))]
         IN IF Len(counted.rounds) < s.config.num_rounds THEN counted ELSE returned(counted, c)

\* the node lists a simulator is constructed with
SimNodeLists ==
    UNION {{[i \in 1..n |-> NetworkNode(NodeName(i), active[i])] : active \in [1..n -> BOOLEAN]} :
           n \in {1, 2}}

SimConfigs ==
    {SimulationConfig(num_rounds, txs_per_round) :
        num_rounds \in (0 - 1)..MaxNumRounds, txs_per_round \in 0..MaxTxsPerRound}

\* NetworkSimulator(consensus, nodes, blockchain) has been constructed over
\* the instance of one protocol, and run(config) has been called
InitSim ==
    /\ chain \in InitialChains
    /\ pending_transactions = <<>>
    /\ protocol \in {{"pow"}, {"pos"}, {"dpos"}, {"pbft"}}
    /\ difficulty = IF "pow" \in protocol THEN 1 ELSE 0
    /\ validators = IF "pos" \in protocol THEN ProofOfStake_init(Stakes) ELSE <<>>
    /\ age_factor \in IF "pos" \in protocol THEN {1, 0 - MaxAgeDiscount} ELSE {0}
    /\ candidates = IF "dpos" \in protocol THEN DelegatedProofOfStake_init(Votes) ELSE <<>>
    /\ num_delegates = IF "dpos" \in protocol THEN 1 ELSE 0
    /\ active_delegates \in IF "dpos" \in protocol
                            THEN shuffles(elect_delegates(DelegatedProofOfStake_init(Votes), 1))
                            ELSE {<<>>}
    /\ round_index = 0
    /\ node_list = IF "pbft" \in protocol THEN Names(4) ELSE <<>>
    /\ byzantine_count = 0
    /\ view = 0
    /\ pbft_nodes \in IF "pbft" \in protocol
                      THEN {PracticalBFT_init(Names(4), sample) :
                                sample \in sample_positions(Names(4), 0)}
                      ELSE {<<>>}
    /\ last = Call("init", NoResult, FALSE, <<>>, <<>>, <<>>)
    /\ history = <<>>
    /\ calls = 0
    /\ inflight = <<>>
    /\ \E nodes \in SimNodeLists, config \in SimConfigs :
           sim = [nodes |-> nodes, config |-> config, height_before |-> height(chain),
                  rounds |-> <<>>, total_txs |-> 0, report |-> <<>>, pc |-> "loop"]

\* run is in its loop and the loop has an iteration left
Looping == sim.pc = "loop" /\ Len(sim.rounds) < sim.config.num_rounds

\* one iteration of the loop: run_round has answered with result
Iterated(kind, result, transactions, c, pool) ==
    /\ last' = Call(kind, result, FALSE, <<>>, transactions, node_addresses(sim.nodes))
    /\ history' = Append(history, Record(kind, result))
    /\ calls' = calls + 1
    /\ sim' = round_done(sim, result, transactions, c, pool)
    /\ UNCHANGED <<protocol, inflight>>

SimPowRound ==
    /\ Looping
    /\ "pow" \in protocol
    /\ \E timestamp \in Clock, pick \in 1..MaxMiners :
        \E transactions \in generate_transactions(sim.nodes, sim.config.txs_per_round, timestamp) :
           LET nodes == node_addresses(sim.nodes)
           IN /\ IF nodes = <<>> THEN pick = 1
                 ELSE /\ pick <= Len(nodes)
                      /\ mine_ends(create_next_block(chain, pending_transactions, FALSE,
                                                     transactions, nodes[pick], timestamp).block,
                                   difficulty)
              /\ \E r \in {pow_run_round(chain, pending_transactions, difficulty, transactions,
                                         nodes, timestamp, pick)} :
                     /\ chain' = r.chain
                     /\ pending_transactions' = r.pending
                     /\ Iterated("pow", r.result, transactions, r.chain, r.pending)
                     /\ UNCHANGED <<PowVars, PosVars, DposVars, PbftVars>>

SimPosRound ==
    /\ Looping
    /\ "pos" \in protocol
    /\ \E timestamp \in Clock, pick \in draws(validators, age_factor) :
        \E transactions \in generate_transactions(sim.nodes, sim.config.txs_per_round, timestamp) :
           \E r \in {pos_run_round(chain, pending_transactions, validators, age_factor,
                                   transactions, timestamp, pick)} :
               /\ chain' = r.chain
               /\ pending_transactions' = r.pending
               /\ validators' = r.validators
               /\ Iterated("pos", r.result, transactions, r.chain, r.pending)
               /\ UNCHANGED <<PowVars, age_factor, DposVars, PbftVars>>

SimDposRound ==
    /\ Looping
    /\ "dpos" \in protocol
    /\ \E timestamp \in Clock :
        \E transactions \in generate_transactions(sim.nodes, sim.config.txs_per_round, timestamp) :
           \E r \in {dpos_run_round(chain, pending_transactions, candidates, active_delegates,
                                    round_index, transactions, timestamp)} :
               /\ chain' = r.chain
               /\ pending_transactions' = r.pending
               /\ candidates' = r.candidates
               /\ round_index' = r.round_index
               /\ Iterated("dpos", r.result, transactions, r.chain, r.pending)
               /\ UNCHANGED <<PowVars, PosVars, num_delegates, active_delegates, PbftVars>>

SimPbftRound ==
    /\ Looping
    /\ "pbft" \in protocol
    /\ \E timestamp \in Clock :
        \E transactions \in generate_transactions(sim.nodes, sim.config.txs_per_round, timestamp) :
           \E r \in {pbft_run_round(chain, pending_transactions, node_list, byzantine_count, view,
                                    pbft_nodes, transactions, timestamp)} :
               /\ chain' = r.chain
               /\ pending_transactions' = r.pending
               /\ view' = r.view
               /\ pbft_nodes' = r.pbft_nodes
               /\ Iterated("pbft", r.result, transactions, r.chain, r.pending)
               /\ UNCHANGED <<PowVars, PosVars, DposVars, node_list, byzantine_count>>

\* range(1, num_rounds + 1) is empty: run returns its report at once
SimNoRounds ==
    /\ sim.pc = "loop"
    /\ sim.config.num_rounds <= 0
    /\ sim' = returned(sim, chain)
    /\ last' = Call("run", NoResult, FALSE, <<>>, <<>>, node_addresses(sim.nodes))
    /\ calls' = calls + 1
    /\ UNCHANGED <<ChainVars, protocol, PowVars, PosVars, DposVars, PbftVars, history, inflight>>

NextSim == SimPowRound \/ SimPosRound \/ SimDposRound \/ SimPbftRound \/ SimNoRounds

SpecSim == InitSim /\ [][NextSim]_vars

(***************************************************************************)
(* Properties                                                              *)
(***************************************************************************)
Range(s) == {s[i] : i \in DOMAIN s}

RoundOps == {"pow", "pos", "dpos", "pbft"}

\* the chain was created with the default genesis block
FromGenesis(c) == c[1] = genesis

\* C1: every run_round call of every protocol returns a result and does one of
\* two things: it reports success and the chain is the previous chain with one
\* block appended, or it reports failure and the chain is unchanged.
C1_SideEffectConsistent ==
    [][last'.op \in RoundOps =>
          /\ ~last'.result.raised
          /\ \/ /\ last'.result.success
                /\ Len(chain') = Len(chain) + 1
                /\ SubSeq(chain', 1, Len(chain)) = chain
             \/ /\ ~last'.result.success
                /\ chain' = chain]_vars

\* C2: add_block returns false and leaves the chain and its height unchanged
\* when the block's previous_hash is not the tip's hash, its hash is None, or
\* its hash is not the hash computed from its fields; otherwise it returns true,
\* the height grows by 1 and the block is the new tip.
C2_AdmissionGate ==
    [][last'.op = "add_block" =>
          LET block == last'.arg[1]
              rejected == \/ block.previous_hash # latest_block(chain).hash
                          \/ block.hash = None
                          \/ block.hash # compute_hash(block)
          IN IF rejected
             THEN /\ ~last'.added
                  /\ chain' = chain
                  /\ height(chain') = height(chain)
             ELSE /\ last'.added
                  /\ height(chain') = height(chain) + 1
                  /\ latest_block(chain') = block
                  /\ SubSeq(chain', 1, height(chain)) = chain]_vars

\* a block linked to the tip whose stored hash is stale was rejected
C2_Witness ==
    /\ last.op = "add_block"
    /\ ~last.added
    /\ last.arg[1].previous_hash = latest_block(chain).hash
    /\ last.arg[1].hash # None
    /\ last.arg[1].hash # compute_hash(last.arg[1])

\* every block carries the hash of its fields, every transaction the id of its
\* fields, and every block names the hash of the block before it
Intact(c) ==
    /\ \A i \in DOMAIN c :
          /\ c[i].hash = compute_hash(c[i])
          /\ \A j \in DOMAIN c[i].transactions :
                c[i].transactions[j].tx_id = tx_compute_hash(c[i].transactions[j])
    /\ \A i \in 2..Len(c) : c[i].previous_hash = c[i - 1].hash

\* C3: once a transaction field or the nonce of a block of the chain, the
\* genesis block included, has been changed after the block was appended,
\* is_valid() returns false.
C3_TamperDetected ==
    [][(/\ last'.op = "mutate"
        /\ last'.field \in {"nonce"} \cup TransactionFields
        /\ Intact(chain))
       => ~is_valid(chain')]_vars

\* C4: is_valid() is true exactly when every position i > 0 of the chain holds
\* a block whose hash is the hash computed from its fields and whose
\* previous_hash is the hash of the block at i-1; it returns a boolean.
C4_IsValidIffAllPairs ==
    /\ is_valid(chain) \in BOOLEAN
    /\ is_valid(chain) <=>
          \A i \in 1..(Len(chain) - 1) :
              /\ chain[i + 1].hash = compute_hash(chain[i + 1])
              /\ chain[i + 1].previous_hash = chain[i].hash

\* a chain of three blocks whose tip and link to the tip are sound, and whose
\* middle block no longer carries the hash of its fields
C4_Witness ==
    /\ Len(chain) = 3
    /\ chain[3].hash = compute_hash(chain[3])
    /\ chain[3].previous_hash = chain[2].hash
    /\ chain[2].hash # compute_hash(chain[2])
    /\ ~is_valid(chain)

\* C5: an add_block call that returns true on a valid chain leaves a valid
\* chain, and so does every run_round call of every protocol, successful or
\* failed; the chain Blockchain() creates is valid.
C5_ValidityPreserved ==
    [][/\ is_valid(Blockchain(<<>>))
       /\ (/\ last'.op \in RoundOps \cup {"add_block"}
           /\ is_valid(chain))
          => is_valid(chain')]_vars

\* a block was added by hand after a successful round, on a chain created
\* with the default genesis
C5_Witness ==
    /\ last.op = "add_block"
    /\ last.added
    /\ Len(history) = 1
    /\ history[1].success
    /\ FromGenesis(chain)
    /\ Len(chain) = 3
    /\ is_valid(chain)

\* C6: a PBFT instance whose Byzantine count f is at most floor((n-1)/3), n the
\* number of its validators, succeeds in every round on a chain grown from the
\* default genesis and appends the proposed block, whichever validators are
\* Byzantine and whichever validator leads.
C6_PbftLiveUnderBound ==
    [][(/\ last'.op = "pbft"
        /\ FromGenesis(chain)
        /\ byzantine_count <= (Cardinality(DOMAIN pbft_nodes) - 1) \div 3)
       => /\ last'.result.success
          /\ ~last'.result.raised
          /\ chain' = Append(chain, last'.result.block[1])]_vars

\* seven validators, two of them Byzantine, a Byzantine leader, a second round
C6_Witness ==
    /\ last.op = "pbft"
    /\ last.result.success
    /\ Cardinality(DOMAIN pbft_nodes) = 7
    /\ byzantine_count = 2
    /\ pbft_nodes[last.result.proposer].is_byzantine
    /\ Rounds("pbft") >= 2
    /\ FromGenesis(chain)

\* C7: PracticalBFT(nodes, f) raises and leaves no instance when
\* f > floor((n-1)/3), n the length of the validator list; with
\* 0 <= f <= floor((n-1)/3) it returns an instance whose quorum is 2f+1; and no
\* round raises for the bound.
C7_PbftConstruction ==
    /\ (last.op = "construct" /\ last.arg[1] = "pbft") =>
          LET n == Len(last.arg[2])
              f == last.arg[3]
          IN /\ f > (n - 1) \div 3 => last.result.raised /\ "pbft" \notin protocol
             /\ (0 <= f /\ f <= (n - 1) \div 3) =>
                   /\ ~last.result.raised
                   /\ "pbft" \in protocol
                   /\ byzantine_count = f
                   /\ node_list = last.arg[2]
                   /\ quorum(byzantine_count) = 2 * f + 1
    /\ last.op = "pbft" => ~last.result.raised

\* seven validators and three Byzantine: the constructor raised
C7_Witness ==
    /\ last.op = "construct"
    /\ last.arg[1] = "pbft"
    /\ Len(last.arg[2]) = 7
    /\ last.arg[3] = 3
    /\ last.result.raised
    /\ protocol = {}

\* C8: with k >= 1 active delegates, the proposers of k consecutive successful
\* DPoS rounds are the k active delegates, each once, and the proposer of
\* round r+k is the proposer of round r.
C8_DposRoundRobin ==
    LET k == Len(active_delegates)
        n == Len(history)
    IN ("dpos" \in protocol /\ k >= 1) =>
          /\ \A r \in 1..(n - k + 1) :
                (\A i \in r..(r + k - 1) : history[i].success) =>
                    /\ {history[i].proposer : i \in r..(r + k - 1)} = Range(active_delegates)
                    /\ \A i, j \in r..(r + k - 1) :
                           history[i].proposer = history[j].proposer => i = j
          /\ \A r \in 1..(n - k) : history[r + k].proposer = history[r].proposer

\* two delegates, three successful rounds
C8_Witness ==
    /\ Len(active_delegates) = 2
    /\ Len(history) = 3
    /\ \A i \in 1..3 : history[i].protocol = "dpos" /\ history[i].success

\* C9 as stated: round_index increases by 1 after every DPoS run_round, also
\* after one that fails for want of an active delegate.
C9_RoundIndexAlwaysAdvances ==
    [][last'.op = "dpos" => round_index' = round_index + 1]_vars

\* C9 as amended: round_index increases by 1 after every DPoS run_round that has
\* an active delegate, whether add_block accepts the block or not, and is
\* unchanged after a run_round without an active delegate.
C9_RoundIndexAdvancesWithDelegate ==
    [][last'.op = "dpos" =>
          round_index' = IF active_delegates = <<>> THEN round_index ELSE round_index + 1]_vars

\* a second round whose block add_block rejected has moved the cursor to 2
C9_Witness ==
    /\ last.op = "dpos"
    /\ ~last.result.success
    /\ last.result.block # <<>>
    /\ active_delegates # <<>>
    /\ round_index = 2

\* C10: after a successful PoS round the proposer's age is 0 and every other
\* validator's age is its previous age plus 1; after a round that is not
\* successful the validators are unchanged; no round changes a stake.
C10_PosCoinAge ==
    [][last'.op = "pos" =>
          /\ DOMAIN validators' = DOMAIN validators
          /\ \A i \in DOMAIN validators :
                /\ validators'[i].address = validators[i].address
                /\ validators'[i].stake = validators[i].stake
                /\ validators'[i].age =
                      IF ~last'.result.success THEN validators[i].age
                      ELSE IF validators[i].address = last'.result.proposer THEN 0
                      ELSE validators[i].age + 1]_vars

\* a second successful round: the proposer at age 0, another validator at age 2
C10_Witness ==
    /\ last.op = "pos"
    /\ last.result.success
    /\ \E i, j \in DOMAIN validators :
          /\ validators[i].address = last.result.proposer
          /\ validators[i].age = 0
          /\ validators[j].age = 2

\* the hash of block at nonce n meets the target of difficulty d
MeetsTarget(block, n, d) ==
    \A k \in 1..d :
        /\ k <= Len(compute_hash([block EXCEPT !.nonce = n]))
        /\ compute_hash([block EXCEPT !.nonce = n])[k] = "0"

\* C11: the hash mine(d) returns has at least d leading '0' characters, is the
\* block's stored hash and is the hash computed from the block at its final
\* nonce; the final nonce is the smallest nonce, from the starting nonce on,
\* whose hash meets the target; no other field changes; with d = 0 the nonce
\* is unchanged.
C11_MineMeetsTarget ==
    [][last'.op = "mine" =>
          LET before == last'.block
              after  == chain'[last'.position + 1]
              d      == last'.difficulty
          IN /\ before = chain[last'.position + 1]
             /\ \A k \in 1..d : last'.returned[k] = "0"
             /\ after.hash = last'.returned
             /\ last'.returned = compute_hash(after)
             /\ after.nonce >= before.nonce
             /\ MeetsTarget(before, after.nonce, d)
             /\ \A n \in before.nonce..(after.nonce - 1) : ~MeetsTarget(before, n, d)
             /\ after = [before EXCEPT !.nonce = after.nonce, !.hash = last'.returned]
             /\ d = 0 => after.nonce = before.nonce
             /\ \A j \in DOMAIN chain : j # last'.position + 1 => chain'[j] = chain[j]]_vars

\* a search of difficulty 2 that began at a nonce above 0 and went further
C11_Witness ==
    /\ last.op = "mine"
    /\ last.difficulty = 2
    /\ last.block.nonce > 0
    /\ chain[last.position + 1].nonce > last.block.nonce

\* C12: every run_round call on a constructed protocol instance returns a
\* ConsensusResult; none ends by raising.
C12_RunRoundReturns ==
    last.op \in RoundOps =>
        /\ ~last.result.raised
        /\ last.result.success \in BOOLEAN

\* C13: the result of a run_round call, of any protocol, carries a block only
\* if its success flag is true.
C13_BlockOnlyOnSuccess ==
    (last.op \in RoundOps /\ ~last.result.raised) =>
        (last.result.block # <<>> => last.result.success)

\* C14 as stated: create_next_block leaves the block sequence unchanged;
\* without a transaction list the draft holds the pending pool in pool order
\* and the pool is left empty, with a list (an empty one too) the draft holds
\* that list and the pool is unchanged; the draft has index = height,
\* previous_hash = the tip's hash, the given validator and no hash.
C14_DraftLinksToTipHash ==
    [][last'.op = "create_next_block" =>
          /\ chain' = chain
          /\ IF last'.omitted
             THEN /\ last'.block.transactions = pending_transactions
                  /\ pending_transactions' = <<>>
             ELSE /\ last'.block.transactions = last'.transactions
                  /\ pending_transactions' = pending_transactions
          /\ last'.block.index = height(chain)
          /\ last'.block.previous_hash = latest_block(chain).hash
          /\ last'.block.validator = last'.validator
          /\ last'.block.hash = None]_vars

\* C14 as amended: the same, with previous_hash = the tip's hash when the tip
\* has a hash, and the empty string when the tip's hash is None.
C14_DraftOfNextBlock ==
    [][last'.op = "create_next_block" =>
          /\ chain' = chain
          /\ IF last'.omitted
             THEN /\ last'.block.transactions = pending_transactions
                  /\ pending_transactions' = <<>>
             ELSE /\ last'.block.transactions = last'.transactions
                  /\ pending_transactions' = pending_transactions
          /\ last'.block.index = height(chain)
          /\ last'.block.previous_hash =
                IF latest_block(chain).hash = None THEN <<>> ELSE latest_block(chain).hash
          /\ last'.block.validator = last'.validator
          /\ last'.block.hash = None]_vars

\* a call without a list has drained a pool of two transactions, T2 before T1
C14_Witness ==
    /\ last.op = "create_next_block"
    /\ last.omitted
    /\ last.block.transactions = <<T2, T1>>
    /\ pending_transactions = <<>>
    /\ last.block.previous_hash = latest_block(chain).hash

\* C15: after every run_round call of every protocol the chain before the
\* call is a prefix of the chain after it, every earlier block unchanged in
\* every field; and the chain changes only in a round that reports success or
\* in an add_block call that returns true.
C15_AppendOnly ==
    [][/\ last'.op \in RoundOps =>
             /\ Len(chain') >= Len(chain)
             /\ \A i \in DOMAIN chain : chain'[i] = chain[i]
       /\ chain' # chain =>
             \/ last'.op \in RoundOps /\ last'.result.success
             \/ last'.op = "add_block" /\ last'.added]_vars

\* two successful rounds of two protocols on a chain that began with two blocks
C15_Witness ==
    /\ last.op \in RoundOps
    /\ Len(history) = 2
    /\ history[1].success
    /\ history[2].success
    /\ history[1].protocol # history[2].protocol
    /\ Len(chain) = 4

\* C16: a PoW round with a non-empty node list on a valid chain that begins
\* with the default genesis block returns success with rounds = 1; the height
\* grows by 1; the new tip is the reported block, has index = the previous
\* height, previous_hash = the previous tip's hash, the reported proposer (one
\* of the nodes) as validator, the round's transactions and a hash of its
\* fields with at least `difficulty` leading zeros; is_valid() is true after.
C16_PowRound ==
    [][(/\ last'.op = "pow"
        /\ last'.nodes # <<>>
        /\ FromGenesis(chain)
        /\ is_valid(chain))
       => LET result == last'.result
              tip    == latest_block(chain')
          IN /\ ~result.raised
             /\ result.success
             /\ result.rounds = 1
             /\ height(chain') = height(chain) + 1
             /\ SubSeq(chain', 1, height(chain)) = chain
             /\ result.block = <<tip>>
             /\ tip.index = height(chain)
             /\ tip.previous_hash = latest_block(chain).hash
             /\ tip.validator = result.proposer
             /\ result.proposer \in Range(last'.nodes)
             /\ tip.transactions = last'.transactions
             /\ tip.hash = compute_hash(tip)
             /\ \A k \in 1..difficulty : tip.hash[k] = "0"
             /\ is_valid(chain')]_vars

\* the example of the specification with two miners: height 1, difficulty 1,
\* two transactions, the second miner draws the round, height 2 after it
C16_Witness ==
    /\ last.op = "pow"
    /\ difficulty = 1
    /\ Len(last.nodes) = 2
    /\ last.result.proposer = last.nodes[2]
    /\ Len(last.transactions) = 2
    /\ last.result.success
    /\ height(chain) = 2
    /\ Len(history) = 1
    /\ latest_block(chain).previous_hash = genesis.hash
    /\ is_valid(chain)

\* C17: a PoW round given an empty node list, and a PoS round of an instance
\* without validators, return success = false with no block and no proposer,
\* and leave the chain, the pending pool and the state of both protocols
\* unchanged.
C17_NoParticipants ==
    [][(\/ last'.op = "pow" /\ last'.nodes = <<>>
        \/ last'.op = "pos" /\ validators = <<>>)
       => /\ ~last'.result.raised
          /\ ~last'.result.success
          /\ last'.result.block = <<>>
          /\ last'.result.proposer = None
          /\ chain' = chain
          /\ pending_transactions' = pending_transactions
          /\ difficulty' = difficulty
          /\ validators' = validators
          /\ age_factor' = age_factor]_vars

\* a PoS round without validators has failed after a successful PoW round,
\* with a transaction waiting in the pool
C17_Witness ==
    /\ last.op = "pos"
    /\ validators = <<>>
    /\ ~last.result.success
    /\ pending_transactions # <<>>
    /\ Len(history) = 2
    /\ history[1].protocol = "pow"
    /\ history[1].success

\* C18: a chain always holds at least one block: constructed from an empty
\* block list it holds exactly the genesis block (index 0, previous_hash of
\* 64 "0" characters, validator "genesis", no transactions, hash equal to
\* its recomputed hash), and no operation or round removes a block, so
\* height >= 1 and latest_block is defined in every state.
C18_GenesisBlock ==
    LET made == Blockchain(<<>>)
    IN /\ Len(made) = 1
       /\ made[1].index = 0
       /\ made[1].previous_hash = [i \in 1..64 |-> "0"]
       /\ made[1].validator = <<"g", "e", "n", "e", "s", "i", "s">>
       /\ made[1].transactions = <<>>
       /\ made[1].hash = compute_hash(made[1])

C18_NeverEmpty ==
    /\ [](/\ height(chain) >= 1
          /\ latest_block(chain) \in Range(chain)
          /\ C18_GenesisBlock)
    /\ [][/\ Len(chain') >= Len(chain)
          /\ SubSeq(chain', 1, Len(chain)) = chain]_vars

\* a chain constructed from an empty block list has been extended twice
C18_Witness ==
    /\ chain[1] = genesis
    /\ Len(chain) = 3
    /\ calls = 2
    /\ Len(history) = 2
    /\ history[1].success
    /\ history[2].success

\* C19: every PBFT round, successful or not, increases the view by exactly 1;
\* the proposer it reports is node_list[view mod n] for the view at the start
\* of the round; so in any n consecutive rounds each position of the list
\* leads exactly once, Byzantine validators included.
C19_ViewRotation ==
    /\ [][last'.op = "pbft" =>
             /\ view' = view + 1
             /\ last'.result.proposer = node_list[(view % Len(node_list)) + 1]]_vars
    /\ []("pbft" \in protocol =>
             LET n == Len(node_list)
                 led(i) == ((i - 1) % n) + 1
             IN /\ view = Len(history)
                /\ \A i \in 1..Len(history) : history[i].proposer = node_list[led(i)]
                /\ \A i \in 1..Len(history) :
                      i + n - 1 <= Len(history) =>
                         \A p \in 1..n :
                            Cardinality({j \in i..(i + n - 1) : led(j) = p}) = 1)

\* three validators have led one round each, and the first round failed
C19_Witness ==
    /\ "pbft" \in protocol
    /\ Len(node_list) = 3
    /\ Len(history) = 3
    /\ view = 3
    /\ ~history[1].success
    /\ Cardinality({history[i].proposer : i \in 1..3}) = 3

\* C20: after the commit phase of a PBFT round, every validator, Byzantine or
\* not, whose received-PREPARE count reaches the quorum is prepared and has
\* emitted a COMMIT, and every emitted COMMIT is in the received-COMMIT set of
\* every validator.
C20_AnyValidatorCommits ==
    last.op = "pbft" =>
        \A a \in DOMAIN pbft_nodes :
            Cardinality(pbft_nodes[a].prepares_received) >= quorum(byzantine_count) =>
                /\ pbft_nodes[a].prepared
                /\ \A b \in DOMAIN pbft_nodes : a \in pbft_nodes[b].commits_received

\* C20, for the validators that are not Byzantine: after the commit phase the
\* prepared validators are exactly the non-Byzantine ones whose received-PREPARE
\* count reaches the quorum, they are the senders of the COMMITs, and the
\* received-COMMIT set of every validator, Byzantine or not, is the set of
\* those senders; a Byzantine validator is never prepared and emits nothing.
C20_HonestValidatorsCommit ==
    last.op = "pbft" =>
        LET emitted == {a \in DOMAIN pbft_nodes : pbft_nodes[a].prepared}
        IN /\ \A a \in DOMAIN pbft_nodes :
                 pbft_nodes[a].prepared <=>
                    /\ ~pbft_nodes[a].is_byzantine
                    /\ Cardinality(pbft_nodes[a].prepares_received) >= quorum(byzantine_count)
           /\ \A b \in DOMAIN pbft_nodes : pbft_nodes[b].commits_received = emitted

\* a Byzantine validator has received a quorum of PREPAREs and of COMMITs, and
\* is not prepared
C20_Witness ==
    /\ last.op = "pbft"
    /\ \E a \in DOMAIN pbft_nodes :
          /\ pbft_nodes[a].is_byzantine
          /\ Cardinality(pbft_nodes[a].prepares_received) >= quorum(byzantine_count)
          /\ Cardinality(pbft_nodes[a].commits_received) >= quorum(byzantine_count)
          /\ ~pbft_nodes[a].prepared

\* C21: a PBFT round calls add_block if and only if the number of non-Byzantine
\* validators holding at least 2f+1 COMMITs is at least 2f+1; then success is
\* what add_block returned, otherwise success is false, there is no block and
\* the chain is unchanged. rounds is 3 either way, and only non-Byzantine
\* validators emit PREPARE.
C21_Finalization ==
    [][last'.op = "pbft" =>
          LET q == quorum(byzantine_count)
              committed_count ==
                  Cardinality({a \in DOMAIN pbft_nodes' :
                                  /\ ~pbft_nodes'[a].is_byzantine
                                  /\ Cardinality(pbft_nodes'[a].commits_received) >= q})
              result == last'.result
          IN /\ result.rounds = 3
             /\ IF committed_count >= q
                THEN /\ result.block # <<>>
                     /\ result.success = add_block(chain, result.block[1]).added
                     /\ chain' = add_block(chain, result.block[1]).chain
                ELSE /\ ~result.success
                     /\ result.block = <<>>
                     /\ chain' = chain
             /\ \A a \in DOMAIN pbft_nodes' :
                   \A sender \in pbft_nodes'[a].prepares_received :
                      ~pbft_nodes'[sender].is_byzantine]_vars

\* a round has failed for want of committed validators, with a Byzantine one
\* among them
C21_Witness ==
    /\ last.op = "pbft"
    /\ ~last.result.success
    /\ last.result.block = <<>>
    /\ last.result.rounds = 3
    /\ byzantine_count >= 1
    /\ \E a \in DOMAIN pbft_nodes : pbft_nodes[a].is_byzantine
    /\ \E a \in DOMAIN pbft_nodes : pbft_nodes[a].prepares_received # {}

\* the validators marked Byzantine
MarkedByzantine(pnodes) == {a \in DOMAIN pnodes : pnodes[a].is_byzantine}

\* C22: in a PBFT instance built over distinct validators with Byzantine count
\* f, exactly f validators are marked Byzantine, and no round changes the set
\* of Byzantine validators, the validator list or the quorum 2f+1.
C22_ByzantineSetFixed ==
    /\ []("pbft" \in protocol /\ Cardinality(Range(node_list)) = Len(node_list) =>
             /\ DOMAIN pbft_nodes = Range(node_list)
             /\ Cardinality(MarkedByzantine(pbft_nodes)) = byzantine_count)
    /\ [][last'.op = "pbft" =>
             /\ MarkedByzantine(pbft_nodes') = MarkedByzantine(pbft_nodes)
             /\ DOMAIN pbft_nodes' = DOMAIN pbft_nodes
             /\ node_list' = node_list
             /\ byzantine_count' = byzantine_count
             /\ quorum(byzantine_count') = 2 * byzantine_count + 1]_vars

\* seven distinct validators, two of them Byzantine, after three rounds
C22_Witness ==
    /\ last.op = "pbft"
    /\ Len(node_list) = 7
    /\ Cardinality(Range(node_list)) = 7
    /\ byzantine_count = 2
    /\ Cardinality({a \in DOMAIN pbft_nodes : pbft_nodes[a].is_byzantine}) = 2
    /\ Rounds("pbft") = 3

\* the votes of a candidate, by address
VotesOf(address) ==
    LET i == CHOOSE i \in 1..Len(candidates) : candidates[i].address = address
    IN candidates[i].votes

\* C23: with num_delegates >= 0 the active delegates are
\* min(num_delegates, number of candidates) distinct candidates, each with at
\* least as many votes as every candidate not elected; and with no active
\* delegate every round fails at once, with the chain unchanged.
C23_Election ==
    /\ []("dpos" \in protocol /\ num_delegates >= 0 =>
             LET addresses == {candidates[i].address : i \in 1..Len(candidates)}
                 elected == Range(active_delegates)
                 smaller == IF num_delegates < Len(candidates)
                            THEN num_delegates ELSE Len(candidates)
             IN /\ Len(active_delegates) = smaller
                /\ Cardinality(elected) = smaller
                /\ elected \subseteq addresses
                /\ \A e \in elected : \A c \in addresses \ elected : VotesOf(e) >= VotesOf(c))
    /\ [][last'.op = "dpos" /\ active_delegates = <<>> =>
             /\ ~last'.result.raised
             /\ ~last'.result.success
             /\ last'.result.block = <<>>
             /\ chain' = chain]_vars

\* of two candidates the one with more votes, second in the dict, was elected
\* alone and has proposed a block
C23_Witness ==
    /\ last.op = "dpos"
    /\ last.result.success
    /\ Len(candidates) = 2
    /\ num_delegates = 1
    /\ candidates[2].votes > candidates[1].votes
    /\ active_delegates = <<candidates[2].address>>
    /\ last.result.proposer = candidates[2].address

\* C24: no DPoS round, successful or failed, changes the active delegate list
\* (membership and order), the candidates or the votes of any candidate.
C24_ElectionFixed ==
    [][last'.op = "dpos" =>
          /\ active_delegates' = active_delegates
          /\ num_delegates' = num_delegates
          /\ Len(candidates') = Len(candidates)
          /\ \A i \in 1..Len(candidates) :
                /\ candidates'[i].address = candidates[i].address
                /\ candidates'[i].votes = candidates[i].votes]_vars

\* two delegates, shuffled out of their dict order, after three rounds in
\* which the second candidate has produced two blocks
C24_Witness ==
    /\ last.op = "dpos"
    /\ Len(history) = 3
    /\ Len(candidates) = 2
    /\ active_delegates = <<candidates[2].address, candidates[1].address>>
    /\ candidates[2].blocks_produced = 2
    /\ candidates[1].blocks_produced = 1

\* the sum of blocks_produced over a list of candidates
RECURSIVE BlocksProduced(_)
BlocksProduced(cands) ==
    IF cands = <<>> THEN 0 ELSE cands[1].blocks_produced + BlocksProduced(Tail(cands))

\* C25: a successful DPoS round adds exactly 1 to the blocks_produced of its
\* proposer and changes no other counter; a failed round changes none. So the
\* sum of blocks_produced is the number of successful rounds, and grows with
\* the height of the chain.
C25_BlocksProduced ==
    /\ [][last'.op = "dpos" =>
             /\ \A i \in 1..Len(candidates) :
                   candidates'[i].blocks_produced =
                      IF last'.result.success /\ candidates[i].address = last'.result.proposer
                      THEN candidates[i].blocks_produced + 1
                      ELSE candidates[i].blocks_produced
             /\ BlocksProduced(candidates') - BlocksProduced(candidates)
                   = Len(chain') - Len(chain)
             /\ BlocksProduced(candidates') - BlocksProduced(candidates)
                   = IF last'.result.success THEN 1 ELSE 0]_vars
    /\ []("dpos" \in protocol =>
             BlocksProduced(candidates)
                = Cardinality({i \in 1..Len(history) : history[i].success}))

\* the only delegate, elected out of two candidates, has produced three blocks
C25_Witness ==
    /\ last.op = "dpos"
    /\ Len(candidates) = 2
    /\ Len(active_delegates) = 1
    /\ BlocksProduced(candidates) = 3
    /\ Len(history) = 3
    /\ \E i \in 1..2 : candidates[i].blocks_produced = 3

\* the weight of the validator at a position, and the total weight
Weight(i) == effective(validators[i], age_factor)

TotalWeight == accumulate([i \in 1..Len(validators) |-> Weight(i)], Len(validators))[Len(validators)]

\* C26: with weight(v) = stake(v) * (1 + age_factor * age(v)), when the total
\* weight is zero every registered validator can be selected; when it is
\* positive the validators that can be selected are exactly those of positive
\* weight; and the proposer of a round is always a registered validator.
C26_SelectionSupport ==
    ("pos" \in protocol /\ validators # <<>>) =>
        /\ TotalWeight = 0 => select_validator(validators, age_factor) = 1..Len(validators)
        /\ TotalWeight > 0 =>
              select_validator(validators, age_factor)
                 = {i \in 1..Len(validators) : Weight(i) > 0}
        /\ (last.op = "pos" /\ ~last.result.raised) =>
              \E i \in 1..Len(validators) : validators[i].address = last.result.proposer

\* the chain was created as Blockchain() and every call since was a run_round:
\* it holds the genesis block and one block for each successful round
OnlyRounds ==
    /\ FromGenesis(chain)
    /\ Len(history) = calls
    /\ Len(chain) = 1 + Cardinality({i \in 1..Len(history) : history[i].success})

\* C27: in a chain created with the default genesis and extended only by
\* run_round calls, of any protocols, the block at position i has index i and
\* a hash that is not None and equals its recomputed hash; for i > 0 its
\* previous_hash is the stored hash of the block at position i-1; and no two
\* blocks have the same previous_hash.
C27_PositionAndLinkage ==
    OnlyRounds =>
        /\ \A i \in 1..Len(chain) :
              /\ chain[i].index = i - 1
              /\ chain[i].hash # None
              /\ chain[i].hash = compute_hash(chain[i])
              /\ i > 1 => chain[i].previous_hash = chain[i - 1].hash
        /\ \A i, j \in 1..Len(chain) :
              chain[i].previous_hash = chain[j].previous_hash => i = j

\* rounds of two protocols have extended Blockchain() to three blocks
C27_Witness ==
    /\ OnlyRounds
    /\ Len(chain) = 3
    /\ Len(history) = 2
    /\ history[1].protocol # history[2].protocol
    /\ chain[2].validator # chain[3].validator

\* both rounds have drafted on the same tip, the tip of a valid chain with a
\* hash, and both have called add_block: a draft has the height of the chain
\* it was built on as its index
DraftedOnOneTip ==
    /\ \A p \in InFlight : inflight[p].pc = "done"
    /\ inflight[1].block[1].index = inflight[2].block[1].index
    /\ LET k == inflight[1].block[1].index
       IN /\ is_valid(SubSeq(chain, 1, k))
          /\ chain[k].hash # None

C29_HashInputUnambiguous ==
    [][(/\ last'.op = "mutate"
        /\ last'.field \in {"index", "tx_id", "previous_hash", "nonce", "validator"})
       => LET before == chain[last'.position + 1]
              after  == chain'[last'.position + 1]
          IN /\ hash_input(after) # hash_input(before)
             /\ before.hash = compute_hash(before) => after.hash # compute_hash(after)]_vars

\* C30: the proposer a round reports, of any protocol, is one of the node
\* identifiers passed to that run_round call, and it is the validator of the
\* block the round built; a node that is not in the passed list proposes no
\* block.
C30_ProposerIsActive ==
    (last.op \in RoundOps /\ ~last.result.raised /\ last.result.proposer # None) =>
        /\ last.result.proposer \in Range(last.nodes)
        /\ last.result.block # <<>> => last.result.block[1].validator = last.result.proposer

\* the successful rounds so far, and those after the last successful round
\* that an address proposed (all of them when it proposed none)
Successes == {i \in 1..Len(history) : history[i].success}

SuccessesSince(address) ==
    {i \in Successes : \A j \in Successes : history[j].proposer = address => j < i}

\* C33: after any sequence of PoS rounds the age of a validator is the number
\* of successful rounds since the last successful round it proposed, or since
\* construction; every age is between 0 and the number of successful rounds;
\* and once a round has succeeded exactly one validator has age 0, the
\* proposer of the latest successful round.
C33_AgeCountsSuccesses ==
    "pos" \in protocol =>
        /\ \A i \in 1..Len(validators) :
              /\ validators[i].age = Cardinality(SuccessesSince(validators[i].address))
              /\ validators[i].age >= 0
              /\ validators[i].age <= Cardinality(Successes)
        /\ Successes # {} =>
              LET latest == CHOOSE i \in Successes : \A j \in Successes : j <= i
                  young == {i \in 1..Len(validators) : validators[i].age = 0}
              IN /\ Cardinality(young) = 1
                 /\ \A i \in young : validators[i].address = history[latest].proposer

\* of two validators one has proposed two blocks: the other has age 2
C33_Witness ==
    /\ "pos" \in protocol
    /\ Len(validators) = 2
    /\ Cardinality(Successes) = 2
    /\ history[1].proposer = history[2].proposer
    /\ \E i \in 1..2 : validators[i].age = 2
    /\ \E i \in 1..2 : validators[i].age = 0

\* C32: no run_round of any protocol changes the pending pool, and the block a
\* round builds holds the batch it was passed and nothing else; add_transaction
\* appends to the pool. So the pool is the transactions added so far, oldest
\* first, whatever rounds ran in between.
C32_PoolUntouchedByRounds ==
    /\ [][/\ last'.op \in RoundOps =>
                /\ pending_transactions' = pending_transactions
                /\ last'.result.block # <<>> =>
                      last'.result.block[1].transactions = last'.transactions
          /\ last'.op = "add_transaction" =>
                pending_transactions' = Append(pending_transactions, last'.transaction)]_vars
    /\ [](Len(pending_transactions) = calls - Len(history))

\* a transaction was added to the pool, and then a round built and appended a
\* block without transactions: the pool still holds the transaction
C32_Witness ==
    /\ last.op \in RoundOps
    /\ last.result.success
    /\ last.transactions = <<>>
    /\ latest_block(chain).transactions = <<>>
    /\ Len(pending_transactions) = 1
    /\ calls = 2

\* the rounds of a report that succeeded
SuccessfulRounds(rounds) == {i \in DOMAIN rounds : rounds[i].consensus_result.success}

RECURSIVE BatchTotal(_, _)
\* the sum of the batch sizes of the rounds in the set picked
BatchTotal(rounds, picked) ==
    IF picked = {} THEN 0
    ELSE LET i == CHOOSE j \in picked : TRUE
         IN Len(rounds[i].consensus_result.block[1].transactions)
            + BatchTotal(rounds, picked \ {i})

\* the report of a run that returned accounts for its rounds
ReportAccounts ==
    sim.pc = "done" =>
        LET report == sim.report[1]
            rounds == report.rounds
            ok == SuccessfulRounds(rounds)
            wanted == IF sim.config.num_rounds > 0 THEN sim.config.num_rounds ELSE 0
        IN /\ Len(rounds) = wanted
           /\ Len(history) = wanted
           /\ \A i \in DOMAIN rounds : rounds[i].round_number = i
           /\ report.successful_rounds = Cardinality(ok)
           /\ report.successful_rounds + report.failed_rounds = Len(rounds)
           /\ report.final_chain_height = height(chain)
           /\ report.final_chain_height = sim.height_before + report.successful_rounds
           /\ \A i \in DOMAIN rounds :
                  rounds[i].chain_height
                      = (IF i = 1 THEN sim.height_before ELSE rounds[i - 1].chain_height)
                        + (IF i \in ok THEN 1 ELSE 0)
           /\ report.total_transactions_processed = BatchTotal(rounds, ok)
           /\ \A k \in DOMAIN sim.nodes :
                  sim.nodes[k].blocks_produced
                      = Cardinality({i \in ok :
                                        rounds[i].consensus_result.proposer = sim.nodes[k].address})

\* C31: NetworkSimulator.run executes max(num_rounds, 0) rounds and returns a
\* report: no exception leaves run, and in the report successful_rounds +
\* failed_rounds is the number of rounds, final_chain_height is the height
\* before the run plus successful_rounds, each round's chain_height is the one
\* before it plus 1 exactly when the round succeeded,
\* total_transactions_processed is the sum of the batch sizes of the
\* successful rounds, and a node's blocks_produced is the number of successful
\* rounds it proposed.
C31_SimulatorAccounting == sim.pc # "raised" /\ ReportAccounts

====
